---- MODULE Spec2Model ----
(***************************************************************************)
(* Document-processing pipeline of the legal document summariser backend:  *)
(* upload handlers, processDocument, the record store seen through         *)
(* Document.save / findById / findOne / find, and the query handlers.      *)
(* Every await in the source is a step boundary; the code between two      *)
(* awaits is one atomic step.                                              *)
(***************************************************************************)
EXTENDS Integers, Sequences, FiniteSets, TLC

VARIABLES db, run, nextId, disk, clock, response, client, translation,
          auth, storeReliable, deployment

vars == <<db, run, nextId, disk, clock, response, client, translation,
          auth, storeReliable, deployment>>

(* the environment of a run, fixed when the server starts *)
env == <<storeReliable, deployment>>

(* ------------------------------ bounds --------------------------------- *)
MaxDocs == 1
MaxSeed == 23
(* the longest a status or document request of the polling client takes,   *)
(* in seconds                                                              *)
MaxQueryTime == 1
(* the longest sequence of strings among the generated translate requests *)
MaxItems == 3

DocIds == 1..MaxDocs
(* ids a query can name: those of the records and one that is never used *)
QueryIds == 1..(MaxDocs + 1)

(* ----------------------------- constants ------------------------------- *)
(* the three server programs of the repository that take uploads: the     *)
(* authenticated app (backend/index.js), the documents router              *)
(* (backend/routes/documents.js) and the unauthenticated app               *)
Deployments == {"index", "routes", "part_003"}

Users == {"A", "B"}
NoUser == "none"

PDF == "application/pdf"
DOC == "application/msword"
DOCX == "application/vnd.openxmlformats-officedocument.wordprocessingml.document"
TXT == "text/plain"
PNG == "image/png"
MimeTypes == {PDF, DOC, DOCX, TXT, PNG}

fileSize == 20 * 1024 * 1024
PageSize == 20

(* the messages below are the string literals of the handlers, of         *)
(* pollForSummary and of handleFileUpload, character for character        *)
NlpError == "Failed to process document with NLP service"
SaveError == "document save failed"
InvalidTypeError == "Invalid file type. Only PDF, DOCX, and TXT files are allowed."
InvalidTypeError_routes == "Invalid file type. Only PDF, DOC, DOCX, and TXT files are allowed."
FileTooLargeError == "File too large"
NoFileError == "No file uploaded"
DeleteError == "Failed to delete document"
FetchDocumentsError == "Failed to fetch documents"
FetchRecentError == "Failed to fetch recent documents"
FetchDocumentError == "Failed to fetch document"
CheckStatusError == "Failed to check document status"
(* .limit(5) of the recent documents *)
RecentSize == 5

(* the messages of the errors pollForSummary throws *)
TimeoutError == "Processing timeout exceeded"
ProcessingFailedError == "Document processing failed"
StatusFailedError == "Failed to get document status"
InvalidStatusError == "Invalid status response from server"
SummaryFailedError == "Failed to get document summary"
SummaryMissingError == "Document summary not found in response"
NetworkError == "Unable to connect to server. Please check your internet connection."
FetchError == "Failed to fetch"
FetchStatusError == "Failed to fetch status: 404"

(* the messages of handleFileUpload *)
UploadFailedError == "Failed to upload document"
NoDocumentIdError == "No document ID received from server"
RequestTimeoutError == "The request took too long to complete. Please try again."
AnalysisComplete == "Analysis complete"

(* pollForSummary of pages/Home.jsx: attempts and milliseconds between two *)
maxAttempts == 30
interval == 10000
(* the defaults of pollForSummary of the unauthenticated client *)
interval_part002 == 2000
timeout == 120000
NotFoundError == "Document not found"
NoError == ""
NoDate == 0

(* JavaScript values of the summary field, tagged with their typeof *)
Undefined == [type |-> "undefined"]
Str(s) == [type |-> "string", text |-> s]
Obj(kp, tb, hl) == [type |-> "object", key_points |-> kp, tables |-> tb, highlights |-> hl]

(* values the summarizer's response.data.summary can take *)
SummarizerResults ==
    { Str("Hello"), Obj(<<"a", "b">>, <<>>, <<"c">>), Undefined }

(* the files an upload request can carry (absent, or a type and a size)  *)
NoFile == [present |-> FALSE, mimetype |-> "", size |-> 0]
Files ==
    {NoFile} \cup
    [present : {TRUE}, mimetype : MimeTypes, size : {fileSize}] \cup
    [present : {TRUE}, mimetype : {PDF, PNG}, size : {fileSize + 1}]

(* ---------------------------- the record ------------------------------- *)
NoDoc ==
    [exists |-> FALSE, user |-> NoUser,
     status |-> "", summary |-> Undefined, error |-> NoError,
     uploadedAt |-> NoDate, processedAt |-> NoDate]

(* new Document({...}) with the schema defaults: status 'uploaded',        *)
(* uploadedAt now, no processedAt, no error, and a summary that is absent  *)
(* (the schema's empty default).  The descriptive fields (filename,        *)
(* originalName, path, size, mimetype) are not kept.                       *)
Document(u, now) ==
    [exists |-> TRUE, user |-> u,
     status |-> "uploaded", summary |-> Undefined, error |-> NoError,
     uploadedAt |-> now, processedAt |-> NoDate]

(* one call of processDocument(d) and the upload handler that made it:    *)
(* pc is the await processDocument is at, document and summary are its     *)
(* locals, handler is "awaiting" while the upload handler awaits the call  *)
(* and "responded" once it has answered; triggers counts the calls of      *)
(* processDocument(d) and calls the calls of callPythonService it made     *)
NoRun ==
    [pc |-> "none", handler |-> "none", document |-> NoDoc, summary |-> Undefined,
     triggers |-> 0, calls |-> 0]

Present(summary) == summary.type # "undefined"

(* --------------------------- file filters ------------------------------ *)
fileFilter(mimetype) == mimetype \in {PDF, DOCX, TXT}

fileFilter_part003(mimetype) == mimetype \in {PDF, DOCX, TXT}

fileFilter_routes(mimetype) == mimetype \in {PDF, DOC, DOCX, TXT}

fileFilter_config(mimetype) == mimetype \in {PDF, DOCX, TXT}

(* an upload middleware configured without limits *)
limits_none(size) == TRUE

(* multer's limits.fileSize: a file longer than the limit is an error *)
limits(size) == size <= fileSize

(* JSON values of the translate request's text and of translatedText,     *)
(* tagged with their kind: an array holds a sequence of values, an object *)
(* the sequence of its <<key, value>> entries in insertion order           *)
Absent == [t |-> "undefined", v |-> 0]
Null == [t |-> "null", v |-> 0]
Text(s) == [t |-> "string", v |-> s]
Num(n) == [t |-> "number", v |-> n]
Arr(items) == [t |-> "array", v |-> items]
Map(entries) == [t |-> "object", v |-> entries]

(* one request to POST /api/translate: pc is where the handler is (idle,   *)
(* awaiting leaf calls of translate, done), text and targetLanguage its    *)
(* body, target the locale it chose, pending the positions of the leaf     *)
(* calls that have not settled, order the positions of those that have     *)
(* resolved, in the order they did, translatedText the value built so far  *)
NoTranslation ==
    [pc |-> "idle", text |-> Absent, targetLanguage |-> "", target |-> "",
     pending |-> {}, order |-> <<>>, translatedText |-> Absent]

(* the users collection and the signup requests in flight: users is the  *)
(* sequence of stored users (id, email) in the order they were saved, and  *)
(* requests gives, for each signup request, where its handler is (idle,    *)
(* awaiting findOne, awaiting save, done) and the email of its body.       *)
(* models/User.js is not part of the sources: unique says whether its      *)
(* collection has a unique index on email, setters whether its schema      *)
(* lower-cases and trims email (Mongoose applies such setters to the       *)
(* filter of a query as well)                                              *)
NoRequest == [pc |-> "idle", email |-> <<>>]
SignupRequests == {1, 2}
NoAuth ==
    [users |-> <<>>, unique |-> FALSE, setters |-> FALSE,
     requests |-> [r \in SignupRequests |-> NoRequest]]

(* ----------------------------- responses ------------------------------- *)
Resp(op, endpoint, u, id, f, code, success, err, status) ==
    [op |-> op, endpoint |-> endpoint, user |-> u, id |-> id,
     mimetype |-> f.mimetype, size |-> f.size, hasFile |-> f.present,
     code |-> code, success |-> success, error |-> err, status |-> status,
     summary |-> Undefined, processedAt |-> NoDate, summaries |-> <<>>,
     documents |-> <<>>, translatedText |-> Absent]

NoResp == Resp("none", "", NoUser, 0, NoFile, 0, FALSE, NoError, "")

(* one call of the client's pollForSummary(documentId): pc is where it is  *)
(* (at a request, asleep between two, at the document request, returned,   *)
(* thrown), attempts its counter, elapsed the milliseconds since it        *)
(* started, polls and fetches the status and document requests it has      *)
(* sent, terminal the completed or failed status it has seen, error the    *)
(* message it threw, result the summary of the document response it       *)
(* returned.  Around it, one call of handleFileUpload(file) of the Home     *)
(* page: its file, the answer to its upload request, and the page's state  *)
(* isLoading, summary, processingStatus and documentId (0 is null).  On    *)
(* the page sits a file upload component (components/FileUpload.jsx, or    *)
(* the dropzone component of part_000) with its selected file; other is    *)
(* where a further call of handleFileUpload is, one the component started  *)
(* after the first                                                         *)
NoClient ==
    [variant |-> "none", pc |-> "idle", id |-> 0, user |-> NoUser,
     attempts |-> 0, elapsed |-> 0, polls |-> 0, fetches |-> 0,
     terminal |-> "", error |-> NoError, result |-> Undefined,
     file |-> NoFile, uploadResponse |-> NoResp,
     isLoading |-> FALSE, summary |-> Undefined,
     processingStatus |-> [error |-> FALSE, text |-> ""], documentId |-> 0,
     component |-> "FileUpload", selectedFile |-> NoFile, other |-> "none"]

(* the server has started and no request has arrived *)
Started ==
    /\ db = [d \in DocIds |-> NoDoc]
    /\ run = [d \in DocIds |-> NoRun]
    /\ nextId = 1
    /\ disk = {}
    /\ clock = 1
    /\ response = NoResp
    /\ client = NoClient
    /\ translation = NoTranslation
    /\ auth = NoAuth
    /\ deployment \in Deployments

(* a store whose writes can throw: each write lands or throws, so the      *)
(* behaviours in which every write lands are among these                   *)
Init == Started /\ storeReliable = FALSE

(* a store whose writes always land *)
InitReliable == Started /\ storeReliable = TRUE

(* ------------------------------ the store ------------------------------ *)
(* document.save(): a write either lands or throws; it can throw only when *)
(* the store is not reliable.                                              *)
SaveOutcomes == IF storeReliable THEN {TRUE} ELSE {TRUE, FALSE}

(* a write that lands on every record of the store *)
save_all(store, d, document) ==
    [e \in DOMAIN store |-> IF store[e].exists THEN document ELSE store[e]]

(* document.save() of a document read from the store, when it lands: an    *)
(* update of the record with that _id, which changes nothing when the      *)
(* record has been removed meanwhile (it never creates the record anew)    *)
save(store, d, document) ==
    IF store[d].exists THEN [store EXCEPT ![d] = document] ELSE store

(* ------------------------- upload: validation -------------------------- *)
(* upload.single('document') followed by the handler's req.file check and, *)
(* for an error passed to next(err), the error middleware.  The result is  *)
(* the rejection response, or NoResp when the request goes on.             *)
Validate(endpoint, u, f, filterOk, typeError) ==
    IF ~f.present
    THEN Resp("upload", endpoint, u, 0, f, 400, FALSE, NoFileError, "")
    ELSE IF ~filterOk
    THEN Resp("upload", endpoint, u, 0, f, 500, FALSE, typeError, "")
    ELSE IF ~limits(f.size)
    THEN Resp("upload", endpoint, u, 0, f, 500, FALSE, FileTooLargeError, "")
    ELSE NoResp

(* new Document(...) and the first document.save() of an upload handler;  *)
(* then processDocument(document._id) is called.  The middleware has       *)
(* stored the file at the path the record names before the handler runs;   *)
(* disk holds the ids of the records whose file is stored (a file stored   *)
(* for a request whose record was never written has no id and is not       *)
(* tracked).                                                               *)
Create(endpoint, u, f, ok, handler, resp) ==
    /\ nextId <= MaxDocs
    /\ IF ok
       THEN /\ db' = [db EXCEPT ![nextId] = Document(u, clock)]
            /\ run' = [run EXCEPT ![nextId] =
                           [NoRun EXCEPT !.pc = "findById", !.handler = handler,
                                         !.triggers = run[nextId].triggers + 1]]
            /\ nextId' = nextId + 1
            /\ disk' = disk \cup {nextId}
            /\ clock' = clock + 1
            /\ response' = resp
       ELSE /\ response' = Resp("upload", endpoint, NoUser, 0, f, 500, FALSE, SaveError, "")
            /\ UNCHANGED <<db, run, nextId, disk, clock>>

(* app.post('/api/upload') of backend/index.js, up to the await of         *)
(* processDocument: the 201 response is sent by UploadRespond_index, and   *)
(* until then the request is pending (code 0).                             *)
Upload_index(u, f, ok) ==
    /\ deployment = "index"
    /\ LET v == Validate("index", NoUser, f, fileFilter(f.mimetype), InvalidTypeError)
       IN  IF v # NoResp
           THEN response' = v /\ UNCHANGED <<db, run, nextId, disk, clock>>
           ELSE Create("index", u, f, ok, "awaiting",
                       Resp("upload", "index", NoUser, nextId, f, 0, FALSE, NoError, ""))
    /\ UNCHANGED <<client, translation, auth, env>>

(* an upload handler that reports a failed record as an error of the     *)
(* request                                                                 *)
UploadRespond_failedIs500(d) ==
    /\ run[d].handler = "awaiting"
    /\ run[d].pc \in {"returned", "rejected"}
    /\ run' = [run EXCEPT ![d].handler = "responded"]
    /\ response' =
         IF run[d].pc = "rejected"
         THEN Resp("upload", "index", NoUser, d, NoFile, 500, FALSE,
                   SaveError, "")
         ELSE IF db[d].status = "failed"
         THEN Resp("upload", "index", NoUser, d, NoFile, 500, FALSE,
                   db[d].error, "")
         ELSE [Resp("upload", "index", NoUser, d, NoFile, 201, TRUE,
                    db[d].error, db[d].status)
                 EXCEPT !.summary = db[d].summary, !.processedAt = db[d].processedAt]
    /\ UNCHANGED <<db, nextId, disk, clock, client, translation, auth, env>>

(* an upload handler that answers without waiting for processDocument *)
UploadRespond_noAwait(d) ==
    /\ run[d].handler = "awaiting"
    /\ run' = [run EXCEPT ![d].handler = "responded"]
    /\ response' =
         IF run[d].pc = "rejected"
         THEN Resp("upload", "index", NoUser, d, NoFile, 500, FALSE,
                   SaveError, "")
         ELSE [Resp("upload", "index", NoUser, d, NoFile, 201, TRUE,
                    db[d].error, db[d].status)
                 EXCEPT !.summary = db[d].summary, !.processedAt = db[d].processedAt]
    /\ UNCHANGED <<db, nextId, disk, clock, client, translation, auth, env>>

(* the rest of app.post('/api/upload') of backend/index.js, after          *)
(* await processDocument(document._id)                                     *)
UploadRespond_index(d) ==
    /\ run[d].handler = "awaiting"
    /\ run[d].pc \in {"returned", "rejected"}
    /\ run' = [run EXCEPT ![d].handler = "responded"]
    /\ response' =
         IF run[d].pc = "rejected"
         THEN Resp("upload", "index", NoUser, d, NoFile, 500, FALSE,
                   SaveError, "")
         ELSE [Resp("upload", "index", NoUser, d, NoFile, 201, TRUE,
                    db[d].error, db[d].status)
                 EXCEPT !.summary = db[d].summary, !.processedAt = db[d].processedAt]
    /\ UNCHANGED <<db, nextId, disk, clock, client, translation, auth, env>>

(* app.post('/api/upload') of the unauthenticated server: processDocument  *)
(* is called without await and the handler answers at once.                *)
Upload_part003(f, ok) ==
    /\ deployment = "part_003"
    /\ LET v == Validate("part_003", NoUser, f, fileFilter_part003(f.mimetype),
                         InvalidTypeError)
       IN  IF v # NoResp
           THEN response' = v /\ UNCHANGED <<db, run, nextId, disk, clock>>
           ELSE Create("part_003", NoUser, f, ok, "responded",
                       Resp("upload", "part_003", NoUser, nextId, f, 201, TRUE,
                            NoError, "uploaded"))
    /\ UNCHANGED <<client, translation, auth, env>>

(* router.post('/upload') of routes/documents.js *)
Upload_routes(u, f, ok) ==
    /\ deployment = "routes"
    /\ LET v == Validate("routes", NoUser, f, fileFilter_routes(f.mimetype),
                         InvalidTypeError_routes)
       IN  IF v # NoResp
           THEN response' = v /\ UNCHANGED <<db, run, nextId, disk, clock>>
           ELSE Create("routes", u, f, ok, "responded",
                       Resp("upload", "routes", NoUser, nextId, f, 201, TRUE, NoError, ""))
    /\ UNCHANGED <<client, translation, auth, env>>

(* --------------------------- processDocument --------------------------- *)
(* a catch block that puts the record back for another attempt *)
Catch_requeue(document, message) ==
    [document EXCEPT !.status = "uploaded", !.error = message]

(* a catch block that stores one fixed message for every error *)
Catch_generic(document, message) ==
    [document EXCEPT !.status = "failed", !.error = ProcessingFailedError]

(* the catch block up to its await: status and error set on the in-memory  *)
(* document, whatever it already holds                                     *)
Catch(document, message) ==
    [document EXCEPT !.status = "failed", !.error = message]

(* a lookup that goes on to the summarizer when it finds no record *)
findById_proceeds(d) ==
    /\ run[d].pc = "findById"
    /\ run' = [run EXCEPT ![d] =
                 IF db[d].exists
                 THEN [@ EXCEPT !.pc = "saveProcessing",
                                !.document = [db[d] EXCEPT !.status = "processing"]]
                 ELSE [@ EXCEPT !.pc = "callPythonService"]]
    /\ response' = NoResp
    /\ UNCHANGED <<db, nextId, disk, clock, client, translation, auth, env>>

(* Document.findById(documentId), the not-found return, and the assignment *)
(* document.status = 'processing'                                          *)
findById(d) ==
    /\ run[d].pc = "findById"
    /\ run' = [run EXCEPT ![d] =
                 IF db[d].exists
                 THEN [@ EXCEPT !.pc = "saveProcessing",
                                !.document = [db[d] EXCEPT !.status = "processing"]]
                 ELSE [@ EXCEPT !.pc = "returned"]]
    /\ response' = NoResp
    /\ UNCHANGED <<db, nextId, disk, clock, client, translation, auth, env>>

(* await document.save() of the processing status *)
saveProcessing(d, ok) ==
    /\ run[d].pc = "saveProcessing"
    /\ IF ok
       THEN /\ db' = save(db, d, run[d].document)
            /\ run' = [run EXCEPT ![d].pc = "callPythonService"]
       ELSE /\ run' = [run EXCEPT ![d].pc = "saveFailed",
                                  ![d].document = Catch(@, SaveError)]
            /\ UNCHANGED db
    /\ response' = NoResp
    /\ UNCHANGED <<nextId, disk, clock, client, translation, auth, env>>

(* a normalisation that wraps nothing *)
Normalize_empty(summary) ==
    IF summary.type = "string"
    THEN Obj(<<>>, <<>>, <<>>)
    ELSE summary

(* the summary normalisation of processDocument *)
Normalize(summary) ==
    IF summary.type = "string"
    THEN Obj(<<summary.text>>, <<>>, <<>>)
    ELSE summary

(* the summarizer's value stored as it came *)
callPythonService_raw(d, summary) ==
    /\ run[d].pc = "callPythonService"
    /\ run' = [run EXCEPT ![d].pc = "saveCompleted",
                          ![d].calls = @ + 1,
                          ![d].summary = summary,
                          ![d].document = [@ EXCEPT !.summary = summary,
                                                    !.status = "completed",
                                                    !.processedAt = clock]]
    /\ clock' = clock + 1
    /\ response' = NoResp
    /\ UNCHANGED <<db, nextId, disk, client, translation, auth, env>>

(* await callPythonService(...) returns response.data.summary; then the    *)
(* normalisation and the assignments up to the next await                  *)
callPythonService(d, summary) ==
    /\ run[d].pc = "callPythonService"
    /\ run' = [run EXCEPT ![d].pc = "saveCompleted",
                          ![d].calls = @ + 1,
                          ![d].summary = summary,
                          ![d].document = [@ EXCEPT !.summary = Normalize(summary),
                                                    !.status = "completed",
                                                    !.processedAt = clock]]
    /\ clock' = clock + 1
    /\ response' = NoResp
    /\ UNCHANGED <<db, nextId, disk, client, translation, auth, env>>

(* a catch block that keeps the summarizer's failure to itself *)
callPythonServiceFails_swallowed(d) ==
    /\ run[d].pc = "callPythonService"
    /\ run' = [run EXCEPT ![d].pc = "saveFailed",
                          ![d].calls = @ + 1,
                          ![d].document = [@ EXCEPT !.error = NlpError]]
    /\ response' = NoResp
    /\ UNCHANGED <<db, nextId, disk, clock, client, translation, auth, env>>

(* a summarizer call that is made a second time when the first one throws *)
callPythonServiceFails_retry(d) ==
    /\ run[d].pc = "callPythonService"
    /\ run' = IF run[d].calls = 0
              THEN [run EXCEPT ![d].calls = @ + 1]
              ELSE [run EXCEPT ![d].pc = "saveFailed",
                               ![d].calls = @ + 1,
                               ![d].document = Catch(@, NlpError)]
    /\ response' = NoResp
    /\ UNCHANGED <<db, nextId, disk, clock, client, translation, auth, env>>

(* callPythonService throws (network failure, timeout, non-2xx response)   *)
callPythonServiceFails(d) ==
    /\ run[d].pc = "callPythonService"
    /\ run' = [run EXCEPT ![d].pc = "saveFailed",
                          ![d].calls = @ + 1,
                          ![d].document = Catch(@, NlpError)]
    /\ response' = NoResp
    /\ UNCHANGED <<db, nextId, disk, clock, client, translation, auth, env>>

(* the catch block also runs after the completed record was written *)
saveCompleted_thenCatch(d, ok) ==
    /\ run[d].pc = "saveCompleted"
    /\ IF ok
       THEN /\ db' = save(db, d, run[d].document)
            /\ run' = [run EXCEPT ![d].pc = "saveFailed",
                                  ![d].document = [@ EXCEPT !.status = "failed",
                                                            !.error = SaveError]]
       ELSE /\ run' = [run EXCEPT ![d].pc = "saveFailed",
                                  ![d].document = [@ EXCEPT !.status = "failed",
                                                            !.error = SaveError]]
            /\ UNCHANGED db
    /\ response' = NoResp
    /\ UNCHANGED <<nextId, disk, clock, client, translation, auth, env>>

(* await document.save() of the completed record *)
saveCompleted(d, ok) ==
    /\ run[d].pc = "saveCompleted"
    /\ IF ok
       THEN /\ db' = save(db, d, run[d].document)
            /\ run' = [run EXCEPT ![d].pc = "returned"]
       ELSE /\ run' = [run EXCEPT ![d].pc = "saveFailed",
                                  ![d].document = Catch(@, SaveError)]
            /\ UNCHANGED db
    /\ response' = NoResp
    /\ UNCHANGED <<nextId, disk, clock, client, translation, auth, env>>

(* a write in the catch block that lands although it throws *)
saveFailed_lands(d, ok) ==
    /\ run[d].pc = "saveFailed"
    /\ db' = save(db, d, run[d].document)
    /\ run' = [run EXCEPT ![d].pc = IF ok THEN "returned" ELSE "rejected"]
    /\ response' = NoResp
    /\ UNCHANGED <<nextId, disk, clock, client, translation, auth, env>>

(* await document.save() inside the catch block; when it throws, the       *)
(* promise of processDocument rejects                                      *)
saveFailed(d, ok) ==
    /\ run[d].pc = "saveFailed"
    /\ IF ok
       THEN /\ db' = save(db, d, run[d].document)
            /\ run' = [run EXCEPT ![d].pc = "returned"]
       ELSE /\ run' = [run EXCEPT ![d].pc = "rejected"]
            /\ UNCHANGED db
    /\ response' = NoResp
    /\ UNCHANGED <<nextId, disk, clock, client, translation, auth, env>>

processDocument(d) ==
    \/ findById(d)
    \/ \E ok \in SaveOutcomes : saveProcessing(d, ok)
    \/ \E summary \in SummarizerResults : callPythonService(d, summary)
    \/ callPythonServiceFails(d)
    \/ \E ok \in SaveOutcomes : saveCompleted(d, ok)
    \/ \E ok \in SaveOutcomes : saveFailed(d, ok)

(* ------------------------------ queries -------------------------------- *)
(* a lookup by id alone *)
findOne_anyUser(store, id, u) ==
    IF id \in DOMAIN store /\ store[id].exists
    THEN store[id]
    ELSE NoDoc

(* Document.findOne({_id: id, user: u}) *)
findOne(store, id, u) ==
    IF id \in DOMAIN store /\ store[id].exists /\ store[id].user = u
    THEN store[id]
    ELSE NoDoc

(* the 404 body of the status and document handlers *)
NotFound(op, u, id) ==
    Resp(op, "index", u, id, NoFile, 404, FALSE, NotFoundError, "")

(* response of app.get('/api/document/:id/status') *)
GetStatus(store, id, u) ==
    LET document == findOne(store, id, u)
    IN  IF ~document.exists
        THEN NotFound("status", u, id)
        ELSE Resp("status", "index", u, id, NoFile, 200, TRUE,
                  document.error, document.status)

(* response of app.get('/api/document/:id') *)
GetDocument(store, id, u) ==
    LET document == findOne(store, id, u)
    IN  IF ~document.exists
        THEN NotFound("document", u, id)
        ELSE [Resp("document", "index", u, id, NoFile, 200, TRUE,
                   document.error, document.status)
                EXCEPT !.summary = document.summary,
                       !.processedAt = document.processedAt]

(* .sort('-uploadedAt'): the ids of S, newest upload first *)
RECURSIVE SortByUploadedAtDesc(_, _)
SortByUploadedAtDesc(store, S) ==
    IF S = {}
    THEN <<>>
    ELSE LET m == CHOOSE x \in S :
                    \A y \in S : store[y].uploadedAt <= store[x].uploadedAt
         IN  <<m>> \o SortByUploadedAtDesc(store, S \ {m})

(* a query without .limit *)
Limit_none(seq, n) == seq

(* .limit(n) *)
Limit(seq, n) == SubSeq(seq, 1, IF Len(seq) < n THEN Len(seq) ELSE n)

(* Document.find({user, status: 'completed'}).sort('-uploadedAt').limit(20) *)
FindCompleted(store, u) ==
    Limit(SortByUploadedAtDesc(store,
              {d \in DOMAIN store :
                  store[d].exists /\ store[d].user = u /\ store[d].status = "completed"}),
          PageSize)

(* documents.map(doc => ({_id, title, summary, createdAt})) *)
Summaries(store, u) ==
    LET documents == FindCompleted(store, u)
    IN  [i \in 1..Len(documents) |->
            LET doc == store[documents[i]]
            IN  [id |-> documents[i],
                 summary |-> doc.summary,
                 createdAt |-> IF doc.processedAt # NoDate
                               THEN doc.processedAt ELSE doc.uploadedAt]]

(* a status handler that starts processing again for a failed record *)
StatusQuery_retrigger(u, id) ==
    /\ deployment = "index"
    /\ response' = GetStatus(db, id, u)
    /\ run' = IF findOne(db, id, u).status = "failed" /\ run[id].pc = "returned"
              THEN [run EXCEPT ![id].pc = "findById", ![id].triggers = @ + 1]
              ELSE run
    /\ UNCHANGED <<db, nextId, disk, clock, client, translation, auth, env>>

(* a status handler that answers from the copy of the record a running   *)
(* processDocument holds in memory                                         *)
StatusQuery_cached(u, id) ==
    /\ deployment = "index"
    /\ response' = GetStatus(IF id \in DOMAIN run /\ run[id].document.exists
                             THEN [db EXCEPT ![id] = run[id].document]
                             ELSE db, id, u)
    /\ UNCHANGED <<db, run, nextId, disk, clock, client, translation, auth, env>>

(* app.get('/api/document/:id/status') *)
StatusQuery(u, id) ==
    /\ deployment = "index"
    /\ response' = GetStatus(db, id, u)
    /\ UNCHANGED <<db, run, nextId, disk, clock, client, translation, auth, env>>

(* app.get('/api/document/:id') *)
DocumentQuery(u, id) ==
    /\ deployment = "index"
    /\ response' = GetDocument(db, id, u)
    /\ UNCHANGED <<db, run, nextId, disk, clock, client, translation, auth, env>>

(* app.get('/api/summaries') *)
ListSummaries(u) ==
    /\ deployment = "index"
    /\ response' = [Resp("list", "index", u, 0, NoFile, 200, TRUE, NoError, "")
                      EXCEPT !.summaries = Summaries(db, u)]
    /\ UNCHANGED <<db, run, nextId, disk, clock, client, translation, auth, env>>

(* ------------------- queries of the documents router ------------------- *)
(* where the file of record d is stored (req.file.path) *)
Path(d) == <<"uploads", d>>

(* the document Mongoose loads for record d, with every field the model   *)
(* keeps and the path; documentType is 'other', the default the upload     *)
(* handler gives a request that names none                                 *)
FullDocument(store, d) ==
    [_id |-> d, path |-> Path(d), user |-> store[d].user,
     documentType |-> "other", status |-> store[d].status,
     summary |-> store[d].summary, error |-> store[d].error,
     uploadedAt |-> store[d].uploadedAt, processedAt |-> store[d].processedAt]

(* .select('-path') and its like: the document without the excluded fields *)
Select(document, excluded) ==
    [f \in DOMAIN document \ excluded |-> document[f]]

(* Document.find(filter).sort('-uploadedAt'): the user's records that     *)
(* have the type, newest upload first                                      *)
FindByUser(store, u, types) ==
    SortByUploadedAtDesc(store,
        {d \in DOMAIN store :
            /\ store[d].exists
            /\ store[d].user = u
            /\ FullDocument(store, d).documentType \in types})

DocumentTypes == {"other", "contract"}

(* the body {success: true, documents} or the catch block's 500 *)
Documents(op, u, ok, ids, excluded, err) ==
    /\ deployment = "routes"
    /\ response' =
         IF ~ok
         THEN Resp(op, "routes", u, 0, NoFile, 500, FALSE, err, "")
         ELSE [Resp(op, "routes", u, 0, NoFile, 200, TRUE, NoError, "")
                 EXCEPT !.documents =
                     [i \in 1..Len(ids) |->
                         Select(FullDocument(db, ids[i]), excluded)]]
    /\ UNCHANGED <<db, run, nextId, disk, clock, client, translation, auth, env>>

(* router.get('/') *)
ListDocuments(u, ok) ==
    Documents("documents", u, ok, FindByUser(db, u, DocumentTypes), {"path"},
              FetchDocumentsError)

(* router.get('/recent') *)
RecentDocuments(u, ok) ==
    Documents("recent", u, ok,
              Limit(FindByUser(db, u, DocumentTypes), RecentSize), {"path"},
              FetchRecentError)

(* router.get('/type/:type'): the query has no .select *)
DocumentsByType(u, type, ok) ==
    Documents("type", u, ok, FindByUser(db, u, {type}), {},
              FetchDocumentsError)

(* router.get('/:id') *)
DocumentDetails(u, id, ok) ==
    /\ deployment = "routes"
    /\ LET document == findOne(db, id, u)
       IN  response' =
             IF ~ok
             THEN Resp("document", "routes", u, id, NoFile, 500, FALSE,
                       FetchDocumentError, "")
             ELSE IF ~document.exists
             THEN [NotFound("document", u, id) EXCEPT !.endpoint = "routes"]
             ELSE [Resp("document", "routes", u, id, NoFile, 200, TRUE,
                        NoError, "")
                     EXCEPT !.documents =
                         <<Select(FullDocument(db, id), {"path"})>>]
    /\ UNCHANGED <<db, run, nextId, disk, clock, client, translation, auth, env>>

(* router.get('/:id/status') *)
DocumentStatus(u, id, ok) ==
    /\ deployment = "routes"
    /\ response' =
         IF ~ok
         THEN Resp("status", "routes", u, id, NoFile, 500, FALSE,
                   CheckStatusError, "")
         ELSE [GetStatus(db, id, u) EXCEPT !.endpoint = "routes"]
    /\ UNCHANGED <<db, run, nextId, disk, clock, client, translation, auth, env>>

(* --------------------------- polling client ---------------------------- *)
(* throw new Error(message) inside pollForSummary *)
Throw(c, message) == [c EXCEPT !.pc = "thrown", !.error = message]

(* a || b on two messages *)
Or(a, b) == IF a # NoError THEN a ELSE b

(* how long a request takes, in milliseconds *)
QueryTimes == {t * 1000 : t \in 0..MaxQueryTime}

(* response of app.get('/api/document/:id') of the unauthenticated server: *)
(* Document.findById, no owner                                             *)
GetDocument_part003(store, id) ==
    IF id \in DOMAIN store /\ store[id].exists
    THEN [Resp("document", "part_003", NoUser, id, NoFile, 200, TRUE,
               store[id].error, store[id].status)
            EXCEPT !.summary = store[id].summary,
                   !.processedAt = store[id].processedAt]
    ELSE Resp("document", "part_003", NoUser, id, NoFile, 404, FALSE, NotFoundError, "")

(* a poll that never gives up *)
poll_forever(answered) ==
    /\ client.variant = "Home"
    /\ client.pc = "poll"
    /\ LET statusResponse == GetStatus(db, client.id, client.user)
           c == [client EXCEPT !.polls = @ + 1]
       IN  /\ response' = IF answered THEN statusResponse ELSE NoResp
           /\ client' =
                IF ~answered
                THEN Throw(c, NetworkError)
                ELSE IF ~statusResponse.success
                THEN Throw(c, Or(statusResponse.error, StatusFailedError))
                ELSE IF statusResponse.status = ""
                THEN Throw(c, InvalidStatusError)
                ELSE IF statusResponse.status = "failed"
                THEN Throw([c EXCEPT !.terminal = "failed"],
                           Or(statusResponse.error, ProcessingFailedError))
                ELSE IF statusResponse.status = "completed"
                THEN [c EXCEPT !.terminal = "completed", !.pc = "getDocument"]
                ELSE [c EXCEPT !.attempts = @ + 1, !.pc = "sleep"]
    /\ UNCHANGED <<db, run, nextId, disk, clock, translation, auth, env>>

(* poll() of pollForSummary of pages/Home.jsx, from its status request to  *)
(* its next await; documentApi.getDocumentStatus answers, or throws when   *)
(* the request fails                                                       *)
poll(answered) ==
    /\ client.variant = "Home"
    /\ client.pc = "poll"
    /\ LET statusResponse == GetStatus(db, client.id, client.user)
           c == [client EXCEPT !.polls = @ + 1]
       IN  /\ response' = IF answered THEN statusResponse ELSE NoResp
           /\ client' =
                IF ~answered
                THEN Throw(c, NetworkError)
                ELSE IF ~statusResponse.success
                THEN Throw(c, Or(statusResponse.error, StatusFailedError))
                ELSE IF statusResponse.status = ""
                THEN Throw(c, InvalidStatusError)
                ELSE IF statusResponse.status = "failed"
                THEN Throw([c EXCEPT !.terminal = "failed"],
                           Or(statusResponse.error, ProcessingFailedError))
                ELSE IF statusResponse.status = "completed"
                THEN [c EXCEPT !.terminal = "completed", !.pc = "getDocument"]
                ELSE IF c.attempts >= maxAttempts
                THEN Throw(c, TimeoutError)
                ELSE [c EXCEPT !.attempts = @ + 1, !.pc = "sleep"]
    /\ UNCHANGED <<db, run, nextId, disk, clock, translation, auth, env>>

(* await documentApi.getDocument(documentId) after a completed status, and *)
(* the checks that follow it                                               *)
pollGetDocument(answered) ==
    /\ client.variant = "Home"
    /\ client.pc = "getDocument"
    /\ LET docResponse == GetDocument(db, client.id, client.user)
           c == [client EXCEPT !.fetches = @ + 1]
       IN  /\ response' = IF answered THEN docResponse ELSE NoResp
           /\ client' =
                IF ~answered
                THEN Throw(c, NetworkError)
                ELSE IF ~docResponse.success
                THEN Throw(c, Or(docResponse.error, SummaryFailedError))
                ELSE IF ~Present(docResponse.summary)
                THEN Throw(c, SummaryMissingError)
                ELSE [c EXCEPT !.pc = "returned", !.result = docResponse.summary]
    /\ UNCHANGED <<db, run, nextId, disk, clock, translation, auth, env>>

(* one turn of the while loop of pollForSummary of the unauthenticated     *)
(* client: the test of the elapsed time, the fetch of the document, which  *)
(* takes duration milliseconds, and the checks up to the next await        *)
pollForSummary_part002(answered, duration) ==
    /\ client.variant = "part_002"
    /\ client.pc = "poll"
    /\ IF client.elapsed >= timeout
       THEN /\ client' = Throw(client, TimeoutError)
            /\ response' = NoResp
       ELSE LET data == GetDocument_part003(db, client.id)
                c == [client EXCEPT !.polls = @ + 1, !.elapsed = @ + duration]
            IN  /\ response' = IF answered THEN data ELSE NoResp
                /\ client' =
                     IF ~answered
                     THEN Throw(c, FetchError)
                     ELSE IF data.code # 200
                     THEN Throw(c, FetchStatusError)
                     ELSE IF data.status = "completed"
                     THEN [c EXCEPT !.terminal = "completed", !.pc = "returned"]
                     ELSE IF data.status = "failed"
                     THEN Throw([c EXCEPT !.terminal = "failed"],
                                Or(data.error, ProcessingFailedError))
                     ELSE [c EXCEPT !.pc = "sleep"]
    /\ UNCHANGED <<db, run, nextId, disk, clock, translation, auth, env>>

(* await new Promise(resolve => setTimeout(resolve, interval)) *)
pollSleep ==
    /\ client.pc = "sleep"
    /\ client' = [client EXCEPT !.pc = "poll",
                                !.elapsed = @ + IF client.variant = "Home"
                                                THEN interval ELSE interval_part002]
    /\ response' = NoResp
    /\ UNCHANGED <<db, run, nextId, disk, clock, translation, auth, env>>

(* ---------------------------- upload client --------------------------- *)
(* setProcessingStatus(text), and setProcessingStatus(`Error: ${message}`) *)
Status(text) == [error |-> FALSE, text |-> text]
ErrorStatus(message) == [error |-> TRUE, text |-> message]

(* a catch block that leaves documentId as it was *)
CatchUpload_keepsDocumentId(c, message) ==
    [c EXCEPT !.pc = "done", !.processingStatus = ErrorStatus(message),
              !.summary = Undefined, !.isLoading = FALSE]

(* the catch and finally blocks of handleFileUpload *)
CatchUpload(c, message) ==
    [c EXCEPT !.pc = "done", !.processingStatus = ErrorStatus(message),
              !.summary = Undefined, !.documentId = 0, !.isLoading = FALSE]

(* the files the FileUpload component hands to handleFileUpload *)
ClientFiles == {f \in Files : f.present}

(* handleFileUpload(file) of pages/Home.jsx up to its await of             *)
(* documentApi.uploadDocument(formData)                                    *)
handleFileUpload(f) ==
    /\ client.variant = "Home"
    /\ client.pc = "idle"
    /\ client' = [client EXCEPT !.pc = "uploadDocument", !.file = f,
                                !.isLoading = TRUE, !.summary = Undefined,
                                !.processingStatus = Status("Uploading document")]
    /\ response' = NoResp
    /\ UNCHANGED <<db, run, nextId, disk, clock, translation, auth, env>>

(* the server takes the upload request of the client: api.post('/upload')  *)
uploadDocument(ok) ==
    /\ client.pc = "uploadDocument"
    /\ response.op # "upload"
    /\ nextId = 1
    /\ \/ Upload_index(client.user, client.file, ok)
       \/ Upload_routes(client.user, client.file, ok)

(* the request gets no answer in time: axios rejects, uploadDocument       *)
(* rethrows and handleFileUpload catches                                   *)
uploadDocumentFails ==
    /\ client.pc = "uploadDocument"
    /\ client' = CatchUpload(client, RequestTimeoutError)
    /\ response' = NoResp
    /\ UNCHANGED <<db, run, nextId, disk, clock, translation, auth, env>>

(* a handleFileUpload that polls whatever the upload answer carries *)
uploadResponse_alwaysPoll ==
    /\ client.pc = "uploadDocument"
    /\ response.op = "upload"
    /\ response.code # 0
    /\ LET uploadResponse == response
           c == [client EXCEPT !.uploadResponse = uploadResponse]
       IN  client' =
             IF uploadResponse.code # 201
             THEN CatchUpload(c, uploadResponse.error)
             ELSE IF ~uploadResponse.success
             THEN CatchUpload(c, Or(uploadResponse.error, UploadFailedError))
             ELSE IF uploadResponse.id = 0
             THEN CatchUpload(c, NoDocumentIdError)
             ELSE [c EXCEPT !.pc = "poll", !.id = uploadResponse.id,
                            !.documentId = uploadResponse.id,
                            !.processingStatus = Status("Processing document...")]
    /\ response' = NoResp
    /\ UNCHANGED <<db, run, nextId, disk, clock, translation, auth, env>>

(* handleFileUpload from the answer to its upload request (the answer of   *)
(* the step before) to its next await or its end: a response that is not   *)
(* 2xx makes uploadDocument throw the error of its body                    *)
uploadResponse ==
    /\ client.pc = "uploadDocument"
    /\ response.op = "upload"
    /\ response.code # 0
    /\ LET uploadResponse == response
           c == [client EXCEPT !.uploadResponse = uploadResponse]
       IN  client' =
             IF uploadResponse.code # 201
             THEN CatchUpload(c, uploadResponse.error)
             ELSE IF ~uploadResponse.success
             THEN CatchUpload(c, Or(uploadResponse.error, UploadFailedError))
             ELSE IF uploadResponse.id = 0
             THEN CatchUpload(c, NoDocumentIdError)
             ELSE IF Present(uploadResponse.summary)
             THEN [c EXCEPT !.pc = "done", !.documentId = uploadResponse.id,
                            !.summary = uploadResponse.summary,
                            !.processingStatus = Status(AnalysisComplete),
                            !.isLoading = FALSE]
             ELSE [c EXCEPT !.pc = "poll", !.id = uploadResponse.id,
                            !.documentId = uploadResponse.id,
                            !.processingStatus = Status("Processing document...")]
    /\ response' = NoResp
    /\ UNCHANGED <<db, run, nextId, disk, clock, translation, auth, env>>

(* handleFileUpload after await pollForSummary(documentId): the result is  *)
(* shown, or the error it threw is caught                                  *)
pollResult ==
    /\ client.isLoading
    /\ client.pc \in {"returned", "thrown"}
    /\ client' =
         IF client.pc = "thrown"
         THEN CatchUpload(client, client.error)
         ELSE [client EXCEPT !.pc = "done", !.summary = client.result,
                             !.processingStatus = Status(AnalysisComplete),
                             !.isLoading = FALSE]
    /\ response' = NoResp
    /\ UNCHANGED <<db, run, nextId, disk, clock, translation, auth, env>>

(* ------------------------ file upload component ------------------------ *)
(* the two components that hand a file to the page's handleFileUpload *)
Components == {"FileUpload", "part_000"}

(* onFileUpload(file): the component calls the page's handleFileUpload,    *)
(* which runs to its await of the upload request.  The first call is the   *)
(* one the page's steps follow, a later one is followed in other           *)
onFileUpload(c, f) ==
    LET page == [c EXCEPT !.isLoading = TRUE, !.summary = Undefined,
                          !.processingStatus = Status("Uploading document")]
    IN  IF c.pc = "idle"
        THEN [page EXCEPT !.pc = "uploadDocument", !.file = f]
        ELSE [page EXCEPT !.other = "uploadDocument"]

(* handleFile(file) of components/FileUpload.jsx: setSelectedFile(file),   *)
(* then onFileUpload(file)                                                 *)
handleFile(f) ==
    /\ client.variant = "Home"
    /\ client.component = "FileUpload"
    /\ client.other = "none"
    /\ client' = onFileUpload([client EXCEPT !.selectedFile = f], f)
    /\ response' = NoResp
    /\ UNCHANGED <<db, run, nextId, disk, clock, translation, auth, env>>

(* a file is dropped on the drop zone, which carries onDrop={handleDrop}   *)
(* whatever it shows inside                                                *)
handleDrop(f) == handleFile(f)

(* a file is picked in the file chooser of the hidden input, which the     *)
(* Choose File button opens; the button is shown when the page is not      *)
(* loading and no file is selected                                         *)
handleChange(f) ==
    /\ ~client.isLoading
    /\ ~client.selectedFile.present
    /\ handleFile(f)

(* onDrop(acceptedFiles) of part_000 with one file the dropzone accepts    *)
(* and within 20MB: setFile(selectedFile), and no call of the page         *)
onDrop(f) ==
    /\ client.variant = "Home"
    /\ client.component = "part_000"
    /\ f.mimetype \in {PDF, DOCX, TXT}
    /\ f.size <= fileSize
    /\ client.selectedFile # f
    /\ client' = [client EXCEPT !.selectedFile = f]
    /\ response' = NoResp
    /\ UNCHANGED <<db, run, nextId, disk, clock, translation, auth, env>>

(* handleSubmit of part_000, the click on its button, which is disabled    *)
(* while no file is selected or the page is loading                        *)
handleSubmit ==
    /\ client.variant = "Home"
    /\ client.component = "part_000"
    /\ client.other = "none"
    /\ client.selectedFile.present
    /\ ~client.isLoading
    /\ client' = onFileUpload(client, client.selectedFile)
    /\ response' = NoResp
    /\ UNCHANGED <<db, run, nextId, disk, clock, translation, auth, env>>

(* the upload request of the further call gets no answer in time: its      *)
(* catch and finally blocks run on the page's state                        *)
otherUploadFails ==
    /\ client.other = "uploadDocument"
    /\ client' = [client EXCEPT !.other = "done",
                                !.processingStatus = ErrorStatus(RequestTimeoutError),
                                !.summary = Undefined, !.documentId = 0,
                                !.isLoading = FALSE]
    /\ response' = NoResp
    /\ UNCHANGED <<db, run, nextId, disk, clock, translation, auth, env>>

(* ------------------------------- delete -------------------------------- *)
(* a delete that looks the record up by id alone *)
Delete_anyUser(u, id, ok) ==
    /\ deployment = "routes"
    /\ LET document == findOne_anyUser(db, id, u)
       IN  IF ~ok
           THEN /\ response' = Resp("delete", "routes", u, id, NoFile, 500, FALSE,
                                    DeleteError, "")
                /\ UNCHANGED db
           ELSE IF ~document.exists
           THEN /\ response' = Resp("delete", "routes", u, id, NoFile, 404, FALSE,
                                    NotFoundError, "")
                /\ UNCHANGED db
           ELSE /\ db' = [db EXCEPT ![id] = NoDoc]
                /\ response' = Resp("delete", "routes", u, id, NoFile, 200, TRUE,
                                    NoError, "")
    /\ UNCHANGED <<run, nextId, disk, clock, client, translation, auth, env>>

(* a delete that removes every record once it has found the one named *)
Delete_all(u, id, ok) ==
    /\ deployment = "routes"
    /\ LET document == findOne(db, id, u)
       IN  IF ~ok
           THEN /\ response' = Resp("delete", "routes", u, id, NoFile, 500, FALSE,
                                    DeleteError, "")
                /\ UNCHANGED db
           ELSE IF ~document.exists
           THEN /\ response' = Resp("delete", "routes", u, id, NoFile, 404, FALSE,
                                    NotFoundError, "")
                /\ UNCHANGED db
           ELSE /\ db' = [d \in DOMAIN db |-> NoDoc]
                /\ response' = Resp("delete", "routes", u, id, NoFile, 200, TRUE,
                                    NoError, "")
    /\ UNCHANGED <<run, nextId, disk, clock, client, translation, auth, env>>

(* router.delete('/:id') of routes/documents.js:                           *)
(* Document.findOneAndDelete({_id, user}) throws (500), finds nothing      *)
(* (404), or removes the record (200); nothing else is touched             *)
Delete(u, id, ok) ==
    /\ deployment = "routes"
    /\ LET document == findOne(db, id, u)
       IN  IF ~ok
           THEN /\ response' = Resp("delete", "routes", u, id, NoFile, 500, FALSE,
                                    DeleteError, "")
                /\ UNCHANGED db
           ELSE IF ~document.exists
           THEN /\ response' = Resp("delete", "routes", u, id, NoFile, 404, FALSE,
                                    NotFoundError, "")
                /\ UNCHANGED db
           ELSE /\ db' = [db EXCEPT ![id] = NoDoc]
                /\ response' = Resp("delete", "routes", u, id, NoFile, 200, TRUE,
                                    NoError, "")
    /\ UNCHANGED <<run, nextId, disk, clock, client, translation, auth, env>>

(* ------------------------ POST /api/translate -------------------------- *)
NoTextError == "No text provided for translation"
TranslationFailedError == "Translation failed"
(* the message of the TypeError Object.entries(null) throws *)
NullEntriesError == "Cannot convert undefined or null to object"
(* the messages an error thrown by a call of translate can carry: one of  *)
(* the library's, or none                                                  *)
TranslateErrors == {"TooManyRequestsError", ""}

(* values of req.body.targetLanguage; NoLanguage is the absent field *)
NoLanguage == "undefined"
TargetLanguages == {"hindi", "Hindi", "english", "tamil", NoLanguage}

(* a locale looked up in a table of the languages the server knows *)
target_table(targetLanguage) ==
    CASE targetLanguage = "hindi" -> "hi"
      [] targetLanguage = "english" -> "en"
      [] OTHER -> NoLanguage

(* const target = targetLanguage === 'hindi' ? 'hi' : 'en' *)
target(targetLanguage) == IF targetLanguage = "hindi" THEN "hi" ELSE "en"

(* the text a call translate(s, {to}) resolves to: s rendered in locale to *)
translate(s, to) == s \o "@" \o to

(* !text *)
Falsy(text) ==
    \/ text.t \in {"undefined", "null"}
    \/ text.t = "string" /\ text.v = ""
    \/ text.t = "number" /\ text.v = 0

(* Object.entries(obj) of a value that is not null: the entries of an     *)
(* object, the <<index, item>> pairs of an array, none of a number         *)
Entries(obj) ==
    CASE obj.t = "object" -> obj.v
      [] obj.t = "array" ->
            [i \in 1..Len(obj.v) |-> <<ToString(i - 1), obj.v[i]>>]
      [] OTHER -> <<>>

(* translateObject(obj) before any call of translate has settled: the     *)
(* fresh object it builds, a key for each entry of obj, with the strings   *)
(* that are passed to translate still in their places                      *)
RECURSIVE translateObject(_)
translateObject(obj) ==
    LET item(x) == IF x.t = "string" THEN x ELSE translateObject(x)
        entry(value) ==
            CASE value.t = "array" ->
                    Arr([i \in 1..Len(value.v) |-> item(value.v[i])])
              [] value.t = "object" -> translateObject(value)
              [] OTHER -> value
    IN  Map([i \in 1..Len(Entries(obj)) |->
                <<Entries(obj)[i][1], entry(Entries(obj)[i][2])>>])

(* translateObject(obj) reaches Object.entries(null): obj is null, or an  *)
(* array under it has a null item, at any depth                            *)
RECURSIVE Throws(_)
Throws(obj) ==
    \/ obj.t = "null"
    \/ \E i \in 1..Len(Entries(obj)) :
          LET value == Entries(obj)[i][2]
          IN  \/ /\ value.t = "array"
                 /\ \E j \in 1..Len(value.v) :
                       value.v[j].t # "string" /\ Throws(value.v[j])
              \/ value.t = "object" /\ Throws(value)

(* the value under position i of an array or an object *)
Child(value, i) == IF value.t = "array" THEN value.v[i] ELSE value.v[i][2]

(* the positions of the strings of a value: each is a path of indices *)
RECURSIVE Leaves(_)
Leaves(value) ==
    CASE value.t = "string" -> {<<>>}
      [] value.t \in {"array", "object"} ->
            UNION {{<<i>> \o p : p \in Leaves(Child(value, i))} :
                      i \in 1..Len(value.v)}
      [] OTHER -> {}

RECURSIVE Get(_, _)
Get(value, p) ==
    IF p = <<>> THEN value ELSE Get(Child(value, Head(p)), Tail(p))

(* the value with x at position p *)
RECURSIVE Put(_, _, _)
Put(value, p, x) ==
    IF p = <<>>
    THEN x
    ELSE IF value.t = "array"
         THEN Arr([value.v EXCEPT ![Head(p)] = Put(@, Tail(p), x)])
         ELSE Map([value.v EXCEPT
                      ![Head(p)] = <<@[1], Put(@[2], Tail(p), x)>>])

(* what the handler starts from: the string itself, or the object         *)
(* translateObject(text) builds                                            *)
Started_translation(text) ==
    IF text.t = "string" THEN text ELSE translateObject(text)

(* the call for the string at p has been issued: translateObject awaits   *)
(* the entries of an object one after the other, so no call under an       *)
(* earlier entry of an object on the way to p is still pending; the items  *)
(* of an array are started together                                        *)
Issued(t, p) ==
    LET start == Started_translation(t.text)
        fork(q) == CHOOSE k \in 1..Len(p) :
                      /\ k <= Len(q)
                      /\ q[k] # p[k]
                      /\ \A j \in 1..(k - 1) : q[j] = p[j]
    IN  \A q \in t.pending \ {p} :
           ~ /\ Get(start, SubSeq(p, 1, fork(q) - 1)).t = "object"
             /\ q[fork(q)] < p[fork(q)]

(* res.json({success: true, translatedText}) once no call is pending *)
TranslateRespond(t) ==
    IF t.pending = {}
    THEN /\ translation' = [t EXCEPT !.pc = "done"]
         /\ response' = [Resp("translate", "index", "A", 0, NoFile, 200, TRUE,
                              NoError, "")
                            EXCEPT !.translatedText = t.translatedText]
    ELSE /\ translation' = t
         /\ response' = NoResp

(* a catch block that answers with what has been translated so far *)
TranslateCatch_partial(t, message) ==
    /\ translation' = [t EXCEPT !.pc = "done", !.pending = {}]
    /\ response' = [Resp("translate", "index", "A", 0, NoFile, 200, TRUE,
                         NoError, "")
                       EXCEPT !.translatedText = t.translatedText]

(* the catch block: 500 with error.message || 'Translation failed' *)
TranslateCatch(t, message) ==
    /\ translation' = [t EXCEPT !.pc = "done", !.pending = {},
                                !.translatedText = Absent]
    /\ response' = Resp("translate", "index", "A", 0, NoFile, 500, FALSE,
                        IF message = "" THEN TranslationFailedError
                        ELSE message, "")

(* app.post('/api/translate') up to its first await *)
Translate(text, targetLanguage) ==
    /\ deployment = "index"
    /\ translation.pc = "idle"
    /\ LET t == [translation EXCEPT !.text = text,
                                    !.targetLanguage = targetLanguage]
       IN  IF Falsy(text)
           THEN /\ translation' = [t EXCEPT !.pc = "done"]
                /\ response' = Resp("translate", "index", "A", 0, NoFile, 400,
                                    FALSE, NoTextError, "")
           ELSE IF text.t # "string" /\ Throws(text)
           THEN TranslateCatch([t EXCEPT !.target = target(targetLanguage)],
                               NullEntriesError)
           ELSE TranslateRespond(
                    [t EXCEPT !.pc = "translate",
                              !.target = target(targetLanguage),
                              !.pending = Leaves(Started_translation(text)),
                              !.translatedText = Started_translation(text)])
    /\ UNCHANGED <<db, run, nextId, disk, clock, client, auth, env>>

(* a call of translate settles in the order the calls were issued rather  *)
(* than at its own position                                                *)
translated_inCompletionOrder(p) ==
    /\ translation.pc = "translate"
    /\ p \in translation.pending
    /\ Issued(translation, p)
    /\ LET start == Started_translation(translation.text)
           siblings == {q \in Leaves(start) :
                           /\ Len(q) = Len(p)
                           /\ SubSeq(q, 1, Len(q) - 1) = SubSeq(p, 1, Len(p) - 1)}
           settled == Cardinality(siblings \ translation.pending)
           slot == CHOOSE q \in siblings :
                      Cardinality({r \in siblings : r[Len(r)] < q[Len(q)]})
                          = settled
           at == IF p = <<>> THEN p ELSE slot
       IN  TranslateRespond(
               [translation EXCEPT
                   !.pending = @ \ {p},
                   !.order = Append(@, p),
                   !.translatedText =
                       Put(@, at, Text(translate(Get(start, p).v,
                                                 translation.target)))])
    /\ UNCHANGED <<db, run, nextId, disk, clock, client, auth, env>>

(* a call of translate resolves and its text is also stored as the        *)
(* summary of the records                                                  *)
translated_stores(p) ==
    /\ translation.pc = "translate"
    /\ p \in translation.pending
    /\ Issued(translation, p)
    /\ LET start == Started_translation(translation.text)
           x == translate(Get(start, p).v, translation.target)
       IN  /\ TranslateRespond(
                  [translation EXCEPT
                      !.pending = @ \ {p},
                      !.order = Append(@, p),
                      !.translatedText = Put(@, p, Text(x))])
           /\ db' = [d \in DOMAIN db |->
                        IF db[d].exists THEN [db[d] EXCEPT !.summary = Str(x)]
                        ELSE db[d]]
    /\ UNCHANGED <<run, nextId, disk, clock, client, auth, env>>

(* one call of translate resolves: its text is stored at the position of  *)
(* the string it was called with (the own key of the object, the own       *)
(* index of the Promise.all result)                                        *)
translated(p) ==
    /\ translation.pc = "translate"
    /\ p \in translation.pending
    /\ Issued(translation, p)
    /\ LET start == Started_translation(translation.text)
       IN  TranslateRespond(
               [translation EXCEPT
                   !.pending = @ \ {p},
                   !.order = Append(@, p),
                   !.translatedText =
                       Put(@, p, Text(translate(Get(start, p).v,
                                                translation.target)))])
    /\ UNCHANGED <<db, run, nextId, disk, clock, client, auth, env>>

(* one call of translate rejects: the rejection reaches the catch block *)
translateFails(p, message) ==
    /\ translation.pc = "translate"
    /\ p \in translation.pending
    /\ Issued(translation, p)
    /\ TranslateCatch(translation, message)
    /\ UNCHANGED <<db, run, nextId, disk, clock, client, auth, env>>

(* ------------------------------- signup -------------------------------- *)
AllFieldsError == "All fields are required"
PasswordLengthError == "Password must be at least 6 characters long"
EmailRegisteredError == "Email already registered"
CreatingUserError == "Error creating user"
UserCreated == "User created successfully"

(* the shortest password signup takes *)
minPasswordLength == 6

(* a string of a request body is the sequence of its characters;           *)
(* s.toLowerCase() and s.trim()                                            *)
toLowerCase(s) == [i \in 1..Len(s) |-> IF s[i] = "A" THEN "a" ELSE s[i]]

RECURSIVE trimStart(_)
trimStart(s) == IF s # <<>> /\ Head(s) = " " THEN trimStart(Tail(s)) ELSE s

RECURSIVE trimEnd(_)
trimEnd(s) ==
    IF s # <<>> /\ s[Len(s)] = " "
    THEN trimEnd(SubSeq(s, 1, Len(s) - 1))
    ELSE s

trim(s) == trimEnd(trimStart(s))

(* the names, emails and password lengths a signup body carries *)
Names == {"", "n"}
Emails == {<<>>, <<"a">>, <<"A">>, <<" ", "a">>, <<"a", " ">>, <<"b">>}
PasswordLengths == {0, minPasswordLength - 1, minPasswordLength}

(* the ids the store gives to users *)
UserIds == Users \cup {"C"}

(* User.findOne({ email }) : the positions of the stored users the filter  *)
(* matches, the filter cast through the schema's setters when it has them  *)
findOne_email(a, email) ==
    LET filter == IF a.setters THEN trim(toLowerCase(email)) ELSE email
    IN  {i \in 1..Len(a.users) : a.users[i].email = filter}

(* the answer of the signup handler *)
SignupResp(code, message) ==
    Resp("signup", "auth", NoUser, 0, NoFile, code, FALSE, message, "")

(* request r leaves the handler with an answer, or goes on to pc *)
SignupStep(r, pc, resp, users) ==
    /\ auth' = [auth EXCEPT !.requests[r].pc = pc, !.users = users]
    /\ response' = resp
    /\ UNCHANGED <<db, run, nextId, disk, clock, client, translation, env>>

(* router.post('/signup') up to its await of User.findOne: the checks of   *)
(* the body                                                                *)
Signup(r, name, email, password) ==
    /\ auth.requests[r].pc = "idle"
    /\ IF name = "" \/ email = <<>> \/ password = 0
       THEN /\ auth' = [auth EXCEPT !.requests[r] = [pc |-> "done", email |-> email]]
            /\ response' = SignupResp(400, AllFieldsError)
       ELSE IF password < minPasswordLength
       THEN /\ auth' = [auth EXCEPT !.requests[r] = [pc |-> "done", email |-> email]]
            /\ response' = SignupResp(400, PasswordLengthError)
       ELSE /\ auth' = [auth EXCEPT !.requests[r] = [pc |-> "findOne", email |-> email]]
            /\ response' = NoResp
    /\ UNCHANGED <<db, run, nextId, disk, clock, client, translation, env>>

(* the lookup settles: with a user found the handler answers 400, with     *)
(* none it builds the user and awaits user.save(), and a lookup that       *)
(* throws lands in the catch                                               *)
SignupFindOne(r, ok) ==
    /\ auth.requests[r].pc = "findOne"
    /\ LET existingUser ==
             findOne_email(auth, toLowerCase(auth.requests[r].email))
       IN  IF ~ok
           THEN SignupStep(r, "done", SignupResp(500, CreatingUserError), auth.users)
           ELSE IF existingUser # {}
           THEN SignupStep(r, "done", SignupResp(400, EmailRegisteredError), auth.users)
           ELSE SignupStep(r, "save", NoResp, auth.users)

(* user.save() settles: the user is stored and the handler answers 201,    *)
(* or the save throws (the store fails, or its unique index on email       *)
(* refuses the document) and the handler answers 500                       *)
SignupSave(r, ok) ==
    /\ auth.requests[r].pc = "save"
    /\ LET email == trim(toLowerCase(auth.requests[r].email))
           taken == \E i \in 1..Len(auth.users) : auth.users[i].email = email
           used == {auth.users[i].id : i \in 1..Len(auth.users)}
           user == [id |-> CHOOSE id \in UserIds : id \notin used,
                    email |-> email]
       IN  IF ~ok \/ (auth.unique /\ taken)
           THEN SignupStep(r, "done", SignupResp(500, CreatingUserError), auth.users)
           ELSE SignupStep(r, "done", SignupResp(201, UserCreated),
                           Append(auth.users, user))

(* --------------------------- authentication ---------------------------- *)
NoTokenError == "Access denied. No token provided."
InvalidTokenError == "Invalid token."

(* req.cookies.token: absent, or a token that jwt.verify throws on (bad    *)
(* signature, expired, malformed), or one it takes and the userId that     *)
(* one carries                                                             *)
NoToken == [present |-> FALSE, verifies |-> FALSE, userId |-> NoUser]
BadToken == [present |-> TRUE, verifies |-> FALSE, userId |-> NoUser]
Tokens ==
    {NoToken, BadToken} \cup
    [present : {TRUE}, verifies : {TRUE}, userId : UserIds]

(* User.findById(id): whether a stored user has the id *)
findUserById(id) == \E i \in 1..Len(auth.users) : auth.users[i].id = id

(* a middleware that trusts the token and does not look the user up *)
authenticateToken_noLookup(token, ok) ==
    IF ~token.present
    THEN [next |-> FALSE, user |-> NoUser, error |-> NoTokenError]
    ELSE IF ~token.verifies
    THEN [next |-> FALSE, user |-> NoUser, error |-> InvalidTokenError]
    ELSE [next |-> TRUE, user |-> token.userId, error |-> NoError]

(* authenticateToken(req, res, next): it calls next() with req.user set,   *)
(* or answers 401 with an error; ok is whether User.findById returns       *)
authenticateToken(token, ok) ==
    IF ~token.present
    THEN [next |-> FALSE, user |-> NoUser, error |-> NoTokenError]
    ELSE IF ~token.verifies \/ ~ok \/ ~findUserById(token.userId)
    THEN [next |-> FALSE, user |-> NoUser, error |-> InvalidTokenError]
    ELSE [next |-> TRUE, user |-> token.userId, error |-> NoError]

(* res.status(401).json({ error }) *)
Unauthorized(op, message) ==
    Resp(op, "index", NoUser, 0, NoFile, 401, FALSE, message, "")

(* the request ends in the middleware: res.status(401).json({ error }),    *)
(* and next() is not called                                                *)
Reject(op, a) ==
    /\ response' = Unauthorized(op, a.error)
    /\ UNCHANGED <<db, run, nextId, disk, clock, client, translation, auth, env>>

(* the texts a translate request and the files an upload carry here *)
AuthTexts == {Absent, Text("a")}
AuthFiles == {NoFile, [present |-> TRUE, mimetype |-> PDF, size |-> fileSize]}

(* the five routes of backend/index.js, app.METHOD(path, authenticateToken, *)
(* handler), for one request with this token: the handler runs for the     *)
(* user of the token when the middleware calls next(), and reads the body  *)
(* and the parameters of the request                                       *)
PostUpload(token, ok) ==
    LET a == authenticateToken(token, ok)
    IN  IF a.next
        THEN \E f \in AuthFiles, saved \in SaveOutcomes :
                 Upload_index(a.user, f, saved)
        ELSE Reject("upload", a)

GetDocumentById(token, ok) ==
    LET a == authenticateToken(token, ok)
    IN  IF a.next
        THEN \E id \in QueryIds : DocumentQuery(a.user, id)
        ELSE Reject("document", a)

GetSummaries(token, ok) ==
    LET a == authenticateToken(token, ok)
    IN  IF a.next THEN ListSummaries(a.user) ELSE Reject("list", a)

GetDocumentStatus(token, ok) ==
    LET a == authenticateToken(token, ok)
    IN  IF a.next
        THEN \E id \in QueryIds : StatusQuery(a.user, id)
        ELSE Reject("status", a)

PostTranslate(token, ok) ==
    LET a == authenticateToken(token, ok)
    IN  IF a.next
        THEN \E text \in AuthTexts : Translate(text, "hindi")
        ELSE Reject("translate", a)

(* --------------------------- specifications ---------------------------- *)
(* the upload requests that differ in what they do: the outcome of the     *)
(* first save matters only for a file the handler accepts, and the sender  *)
(* only when that save lands (no answer to a refused or unsaved upload     *)
(* names the sender), so one outcome and one sender stand for the others   *)
Accepts(f, filterOk) == f.present /\ filterOk /\ limits(f.size)
Outcomes(accepted) == IF accepted THEN SaveOutcomes ELSE {TRUE}
Senders(accepted, ok) == IF accepted /\ ok THEN Users ELSE {"A"}

(* the handlers and steps that write records *)
Pipeline ==
    \/ \E f \in Files :
          LET accepted == Accepts(f, fileFilter(f.mimetype))
          IN  \E ok \in Outcomes(accepted) : \E u \in Senders(accepted, ok) :
                  Upload_index(u, f, ok)
    \/ \E d \in DOMAIN db : UploadRespond_index(d)
    \/ \E f \in Files :
          \E ok \in Outcomes(Accepts(f, fileFilter_part003(f.mimetype))) :
              Upload_part003(f, ok)
    \/ \E f \in Files :
          LET accepted == Accepts(f, fileFilter_routes(f.mimetype))
          IN  \E ok \in Outcomes(accepted) : \E u \in Senders(accepted, ok) :
                  Upload_routes(u, f, ok)
    \/ \E d \in DOMAIN db : processDocument(d)

(* the handlers that only read them *)
Queries ==
    \/ \E u \in Users, id \in QueryIds : StatusQuery(u, id)
    \/ \E u \in Users, id \in QueryIds : DocumentQuery(u, id)
    \/ \E u \in Users : ListSummaries(u)

(* the handler that removes them *)
Removal ==
    \E u \in Users, id \in QueryIds, ok \in SaveOutcomes : Delete(u, id, ok)

Next == Pipeline \/ Queries \/ Removal

Spec == Init /\ [][Next]_vars

(* The pipeline alone, on a reliable store, under fairness: the event     *)
(* loop runs every continuation that is ready, and the summarizer call     *)
(* eventually returns or throws.  The query handlers write nothing but     *)
(* their response.                                                         *)
FairSpec ==
    InitReliable /\ [][Pipeline]_vars /\ \A d \in DocIds : WF_vars(processDocument(d))

(* ---------------- the list handler on a populated store ---------------- *)
(* owner, status, and for a completed record whether its run ended only    *)
(* after the runs of the next uploads: upload requests are served          *)
(* concurrently, so runs end in any order                                  *)
SeedKinds ==
    (Users \X {"uploaded", "processing", "failed"} \X {FALSE})
        \cup (Users \X {"completed"} \X BOOLEAN)

(* record number i of a store in which every upload has been processed as  *)
(* far as its kind says, with no write failure: uploaded at 2i-1, and      *)
(* completed at 2i, or at 2i+3 when its run ended late                     *)
Seeded(i, kind) ==
    [exists |-> TRUE, user |-> kind[1], status |-> kind[2],
     summary |-> IF kind[2] = "completed" THEN Normalize(Str("Hello")) ELSE Undefined,
     error |-> IF kind[2] = "failed" THEN NlpError ELSE NoError,
     uploadedAt |-> 2 * i - 1,
     processedAt |-> IF kind[2] = "completed"
                     THEN (IF kind[3] THEN 2 * i + 3 ELSE 2 * i)
                     ELSE NoDate]

SeededRun(kind) ==
    [NoRun EXCEPT !.pc = CASE kind[2] = "uploaded" -> "findById"
                          [] kind[2] = "processing" -> "callPythonService"
                          [] OTHER -> "returned",
                  !.handler = IF kind[2] \in {"completed", "failed"}
                              THEN "responded" ELSE "awaiting",
                  !.triggers = 1,
                  !.calls = IF kind[2] \in {"completed", "failed"} THEN 1 ELSE 0]

(* n records; the three newest are of any kind, the older ones are         *)
(* completed records of user A                                             *)
InitList ==
    \E n \in 0..MaxSeed, k \in [0..2 -> SeedKinds] :
        LET kind(i) == IF i > n - 3 THEN k[n - i] ELSE <<"A", "completed", FALSE>>
        IN  /\ db = [d \in 1..n |-> Seeded(d, kind(d))]
            /\ run = [d \in 1..n |-> SeededRun(kind(d))]
            /\ nextId = n + 1
            /\ disk = 1..n
            /\ clock = 2 * n + 4
            /\ response = NoResp
            /\ client = NoClient
            /\ translation = NoTranslation
            /\ auth = NoAuth
            /\ storeReliable = TRUE
            /\ deployment = "index"

NextList == \E u \in Users : ListSummaries(u)

SpecList == InitList /\ [][NextList]_vars

(* ------------- the polling client against a running server ------------- *)
(* an asynchronous upload handler has created record 1, answered, and      *)
(* started processDocument; the client calls pollForSummary with the id of *)
(* the record or with an id no record has                                  *)
InitPoll ==
    /\ deployment \in {"routes", "part_003"}
    /\ storeReliable = FALSE
    /\ LET owner == IF deployment = "routes" THEN "A" ELSE NoUser
       IN  /\ db = [d \in DocIds |-> IF d = 1 THEN Document(owner, 1) ELSE NoDoc]
           /\ client \in {[NoClient EXCEPT
                                !.variant = IF deployment = "routes"
                                            THEN "Home" ELSE "part_002",
                                !.pc = "poll", !.id = id, !.user = owner] :
                             id \in QueryIds}
    /\ run = [d \in DocIds |->
                 IF d = 1
                 THEN [NoRun EXCEPT !.pc = "findById", !.handler = "responded",
                                    !.triggers = 1]
                 ELSE NoRun]
    /\ nextId = 2
    /\ disk = {1}
    /\ clock = 2
    /\ response = NoResp
    /\ translation = NoTranslation
    /\ auth = NoAuth

(* the steps of the client and of the run it waits for *)
NextPoll ==
    \/ \E answered \in BOOLEAN : poll(answered)
    \/ \E answered \in BOOLEAN : pollGetDocument(answered)
    \/ \E answered \in BOOLEAN, duration \in QueryTimes :
          pollForSummary_part002(answered, duration)
    \/ pollSleep
    \/ \E d \in DOMAIN db : processDocument(d)

SpecPoll == InitPoll /\ [][NextPoll]_vars

(* ------------ the Home page's upload against a running server ---------- *)
(* the authenticated server has started, in its synchronous (index) or its *)
(* detached (routes) form, and user A is on the Home page                  *)
InitUpload ==
    /\ db = [d \in DocIds |-> NoDoc]
    /\ run = [d \in DocIds |-> NoRun]
    /\ nextId = 1
    /\ disk = {}
    /\ clock = 1
    /\ response = NoResp
    /\ client = [NoClient EXCEPT !.variant = "Home", !.user = "A"]
    /\ translation = NoTranslation
    /\ auth = NoAuth
    /\ deployment \in {"index", "routes"}
    /\ storeReliable = FALSE

(* the steps of the page, of the server's upload handler and of the run *)
NextUpload ==
    \/ \E f \in ClientFiles : handleFileUpload(f)
    \/ \E ok \in SaveOutcomes : uploadDocument(ok)
    \/ uploadDocumentFails
    \/ uploadResponse
    \/ \E answered \in BOOLEAN : poll(answered)
    \/ \E answered \in BOOLEAN : pollGetDocument(answered)
    \/ pollSleep
    \/ pollResult
    \/ \E d \in DOMAIN db : UploadRespond_index(d)
    \/ \E d \in DOMAIN db : processDocument(d)

SpecUpload == InitUpload /\ [][NextUpload]_vars

(* ---------------- translate requests to a running server -------------- *)
(* sequences of strings, of every length up to MaxItems *)
StringSeqs == UNION {[1..n -> {Text("a"), Text("b")}] : n \in 0..MaxItems}

(* bodies of the request: an absent and an empty text, a string, a summary *)
(* object, a top-level array, arrays in arrays, numbers and null in        *)
(* arrays and objects, objects in objects and in arrays                    *)
StructuredTexts ==
    << Absent,
       Text(""),
       Text("a"),
       Map(<< <<"key_points", Arr(<<Text("a"), Text("b")>>)>>,
              <<"tables", Arr(<<>>)>>,
              <<"highlights", Arr(<<Text("b")>>)>> >>),
       Arr(<<Text("a"), Text("b")>>),
       Arr(<<>>),
       Num(1),
       Map(<< <<"rows", Arr(<<Arr(<<Text("a")>>)>>)>> >>),
       Map(<< <<"counts", Arr(<<Num(1), Text("a")>>)>> >>),
       Map(<< <<"meta", Map(<< <<"title", Text("a")>>, <<"pages", Num(1)>>,
                               <<"note", Null>> >>)>>,
              <<"title", Text("b")>> >>),
       Map(<< <<"items", Arr(<<Text("a"), Null>>)>> >>),
       Map(<< <<"sections", Arr(<< Map(<< <<"heading", Text("a")>> >>),
                                   Map(<< <<"heading", Text("b")>> >>) >>)>> >>)
    >>

TranslateTexts ==
    {StructuredTexts[i] : i \in 1..Len(StructuredTexts)}
        \cup {Map(<< <<"key_points", Arr(seq)>> >>) : seq \in StringSeqs}

(* the synchronous server holds record 1, whose upload handler awaits      *)
(* processDocument, when a translate request arrives                       *)
InitTranslate ==
    /\ deployment = "index"
    /\ storeReliable = FALSE
    /\ db = [d \in DocIds |-> IF d = 1 THEN Document("A", 1) ELSE NoDoc]
    /\ run = [d \in DocIds |->
                 IF d = 1
                 THEN [NoRun EXCEPT !.pc = "findById", !.handler = "awaiting",
                                    !.triggers = 1]
                 ELSE NoRun]
    /\ nextId = 2
    /\ disk = {1}
    /\ clock = 2
    /\ response = NoResp
    /\ client = NoClient
    /\ translation = NoTranslation
    /\ auth = NoAuth

(* the steps of the translate handler and of the run beside it *)
NextTranslate ==
    \/ \E text \in TranslateTexts, targetLanguage \in TargetLanguages :
          Translate(text, targetLanguage)
    \/ \E p \in translation.pending : translated(p)
    \/ \E p \in translation.pending, message \in TranslateErrors :
          translateFails(p, message)
    \/ \E d \in DOMAIN db : processDocument(d)
    \/ \E d \in DOMAIN db : UploadRespond_index(d)

SpecTranslate == InitTranslate /\ [][NextTranslate]_vars

(* ------------- requests to a server with two runs in flight ------------ *)
(* the ids of two records whose uploads, by two users, are being processed *)
Served == {1, 2}

(* the synchronous server holds the two records, each with its upload      *)
(* handler awaiting processDocument                                        *)
InitServing ==
    /\ deployment = "index"
    /\ storeReliable = FALSE
    /\ db = [d \in Served |-> Document(IF d = 1 THEN "A" ELSE "B", d)]
    /\ run = [d \in Served |->
                 [NoRun EXCEPT !.pc = "findById", !.handler = "awaiting",
                               !.triggers = 1]]
    /\ nextId = 3
    /\ disk = Served
    /\ clock = 3
    /\ response = NoResp
    /\ client = NoClient
    /\ translation = NoTranslation
    /\ auth = NoAuth

(* the two runs, the handlers that read records and the translate handler *)
NextServing ==
    \/ \E d \in DOMAIN db : processDocument(d)
    \/ \E d \in DOMAIN db : UploadRespond_index(d)
    \/ \E u \in Users, id \in QueryIds : StatusQuery(u, id)
    \/ \E u \in Users, id \in QueryIds : DocumentQuery(u, id)
    \/ \E u \in Users : ListSummaries(u)
    \/ \E text \in {Absent, Text("a")} : Translate(text, "hindi")
    \/ \E p \in translation.pending : translated(p)
    \/ \E p \in translation.pending, message \in TranslateErrors :
          translateFails(p, message)

SpecServing == InitServing /\ [][NextServing]_vars

(* ------------- delete requests to the documents router ----------------- *)
(* the ids a delete request names: those of the two records and one that   *)
(* no record has                                                           *)
DeleteIds == Served \cup {Cardinality(Served) + 1}

(* the documents router holds the two records, each uploaded by its user   *)
(* and answered, with its detached processDocument about to start          *)
InitRemoval ==
    /\ deployment = "routes"
    /\ storeReliable = FALSE
    /\ db = [d \in Served |-> Document(IF d = 1 THEN "A" ELSE "B", d)]
    /\ run = [d \in Served |->
                 [NoRun EXCEPT !.pc = "findById", !.handler = "responded",
                               !.triggers = 1]]
    /\ nextId = 3
    /\ disk = Served
    /\ clock = 3
    /\ response = NoResp
    /\ client = NoClient
    /\ translation = NoTranslation
    /\ auth = NoAuth

(* the two runs and the delete requests of the two users *)
NextRemoval ==
    \/ \E d \in DOMAIN db : processDocument(d)
    \/ \E u \in Users, id \in DeleteIds, ok \in SaveOutcomes : Delete(u, id, ok)

SpecRemoval == InitRemoval /\ [][NextRemoval]_vars

(* -------------- queries to the documents router ------------------------ *)
(* the two runs and the query handlers of the router *)
NextDocuments ==
    \/ \E d \in DOMAIN db : processDocument(d)
    \/ \E u \in Users, ok \in SaveOutcomes : ListDocuments(u, ok)
    \/ \E u \in Users, ok \in SaveOutcomes : RecentDocuments(u, ok)
    \/ \E u \in Users, type \in DocumentTypes, ok \in SaveOutcomes :
          DocumentsByType(u, type, ok)
    \/ \E u \in Users, id \in DeleteIds, ok \in SaveOutcomes :
          DocumentDetails(u, id, ok)
    \/ \E u \in Users, id \in DeleteIds, ok \in SaveOutcomes :
          DocumentStatus(u, id, ok)

SpecDocuments == InitRemoval /\ [][NextDocuments]_vars

(* --------- the file upload component on the Home page ------------------ *)
(* as InitUpload, with either component on the page *)
InitFileUpload ==
    /\ db = [d \in DocIds |-> NoDoc]
    /\ run = [d \in DocIds |-> NoRun]
    /\ nextId = 1
    /\ disk = {}
    /\ clock = 1
    /\ response = NoResp
    /\ \E component \in Components :
         client = [NoClient EXCEPT !.variant = "Home", !.user = "A",
                                   !.component = component]
    /\ translation = NoTranslation
    /\ auth = NoAuth
    /\ deployment \in {"index", "routes"}
    /\ storeReliable = FALSE

(* the user's actions on the component, and the steps of the page, of the  *)
(* server's upload handler and of the run                                  *)
NextFileUpload ==
    \/ \E f \in ClientFiles : handleDrop(f)
    \/ \E f \in ClientFiles : handleChange(f)
    \/ \E f \in ClientFiles : onDrop(f)
    \/ handleSubmit
    \/ otherUploadFails
    \/ \E ok \in SaveOutcomes : uploadDocument(ok)
    \/ uploadDocumentFails
    \/ uploadResponse
    \/ \E answered \in BOOLEAN : poll(answered)
    \/ \E answered \in BOOLEAN : pollGetDocument(answered)
    \/ pollSleep
    \/ pollResult
    \/ \E d \in DOMAIN db : UploadRespond_index(d)
    \/ \E d \in DOMAIN db : processDocument(d)

SpecFileUpload == InitFileUpload /\ [][NextFileUpload]_vars

(* ------------------------ signup requests ------------------------------ *)
(* the server has started with no user; the users collection has a unique  *)
(* index on email or not, and its schema setters or not                    *)
InitSignup ==
    /\ db = [d \in DocIds |-> NoDoc]
    /\ run = [d \in DocIds |-> NoRun]
    /\ nextId = 1
    /\ disk = {}
    /\ clock = 1
    /\ response = NoResp
    /\ client = NoClient
    /\ translation = NoTranslation
    /\ deployment = "index"
    /\ storeReliable = FALSE
    /\ \E unique \in BOOLEAN, setters \in BOOLEAN :
         auth = [NoAuth EXCEPT !.unique = unique, !.setters = setters]

(* the steps of the signup requests *)
NextSignup ==
    \/ \E r \in SignupRequests, name \in Names, email \in Emails,
          password \in PasswordLengths : Signup(r, name, email, password)
    \/ \E r \in SignupRequests, ok \in SaveOutcomes : SignupFindOne(r, ok)
    \/ \E r \in SignupRequests, ok \in SaveOutcomes : SignupSave(r, ok)

SpecSignup == InitSignup /\ [][NextSignup]_vars

(* ---------------- requests through authenticateToken ------------------ *)
(* the synchronous server with one stored user, A; the ids B and C are in  *)
(* no stored user (a user removed since the token was signed, or one that  *)
(* never was).  The store has room for one more record: the earlier ones   *)
(* are completed records of A                                              *)
InitAuth ==
    LET kind == <<"A", "completed", FALSE>>
    IN  /\ db = [d \in DocIds |-> IF d < MaxDocs THEN Seeded(d, kind) ELSE NoDoc]
        /\ run = [d \in DocIds |-> IF d < MaxDocs THEN SeededRun(kind) ELSE NoRun]
        /\ nextId = MaxDocs
        /\ disk = 1..(MaxDocs - 1)
        /\ clock = 2 * MaxDocs
        /\ response = NoResp
        /\ client = NoClient
        /\ translation = NoTranslation
        /\ auth = [NoAuth EXCEPT !.users = <<[id |-> "A", email |-> <<"a">>]>>]
        /\ deployment = "index"
        /\ storeReliable = FALSE

(* requests with any token to the five routes, and the steps of the runs   *)
(* and of the translate handler                                            *)
NextAuth ==
    \/ \E token \in Tokens, ok \in SaveOutcomes : PostUpload(token, ok)
    \/ \E token \in Tokens, ok \in SaveOutcomes : GetDocumentById(token, ok)
    \/ \E token \in Tokens, ok \in SaveOutcomes : GetSummaries(token, ok)
    \/ \E token \in Tokens, ok \in SaveOutcomes : GetDocumentStatus(token, ok)
    \/ \E token \in Tokens, ok \in SaveOutcomes : PostTranslate(token, ok)
    \/ \E d \in DOMAIN db : processDocument(d)
    \/ \E d \in DOMAIN db : UploadRespond_index(d)
    \/ \E p \in translation.pending : translated(p)
    \/ \E p \in translation.pending, message \in TranslateErrors :
          translateFails(p, message)

SpecAuth == InitAuth /\ [][NextAuth]_vars

(* ============================== claims ================================= *)
Terminal == {"completed", "failed"}

Finished(d) == run[d].pc \in {"returned", "rejected"}

(* the persisted status of record d changes from a to b in this step *)
Edge(d, a, b) == db[d].exists /\ db[d].status = a /\ db'[d].status = b

(* the record is still there and its status is another one *)
StatusChanges(d) == db[d].exists /\ db'[d].exists /\ db'[d].status # db[d].status

(* C1 as stated: the persisted status of a record changes only along       *)
(* uploaded -> processing, processing -> completed, processing -> failed.  *)
C1_OnlyThreeEdges ==
    [][\A d \in DOMAIN db :
          StatusChanges(d) =>
              \/ Edge(d, "uploaded", "processing")
              \/ Edge(d, "processing", "completed")
              \/ Edge(d, "processing", "failed")]_vars

(* C1 amended: the persisted status changes only along uploaded ->         *)
(* processing, processing -> completed, processing -> failed, and          *)
(* uploaded -> failed; the last one occurs only when the write of          *)
(* 'processing' failed and the catch block's write succeeded.  No edge     *)
(* leaves completed or failed, none goes back, uploaded -> completed never *)
(* occurs.                                                                 *)
C1_ForwardEdges ==
    [][\A d \in DOMAIN db :
          StatusChanges(d) =>
              \/ Edge(d, "uploaded", "processing")
              \/ Edge(d, "processing", "completed")
              \/ Edge(d, "processing", "failed")
              \/ /\ Edge(d, "uploaded", "failed")
                 /\ run[d].pc = "saveFailed"
                 /\ run[d].document.error = SaveError
                 /\ db'[d].error = SaveError]_vars

(* a record that went from uploaded to failed: the write of 'processing'   *)
(* failed, so nothing was sent to the summarizer and processedAt is unset  *)
C1_Witness ==
    \E d \in DOMAIN db :
        /\ db[d].status = "failed"
        /\ db[d].error = SaveError
        /\ db[d].processedAt = NoDate
        /\ run[d].summary = Undefined
        /\ run[d].pc = "returned"

(* C2 as stated: completed => summary present and error absent; failed =>  *)
(* error present and summary absent; uploaded or processing => neither.    *)
C2_SummaryXorError ==
    \A d \in DOMAIN db :
        db[d].exists =>
            /\ db[d].status = "completed" =>
                   Present(db[d].summary) /\ db[d].error = NoError
            /\ db[d].status = "failed" =>
                   db[d].error # NoError /\ ~Present(db[d].summary)
            /\ db[d].status \in {"uploaded", "processing"} =>
                   ~Present(db[d].summary) /\ db[d].error = NoError

C4_EventuallyTerminal ==
    \A d \in DocIds :
        /\ (storeReliable /\ db[d].exists) ~> (db[d].status \in Terminal)
        /\ (/\ storeReliable
            /\ run[d].summary.type = "string"
            /\ run[d].summary.text # "")
             ~> (/\ db[d].status = "completed"
                 /\ db[d].summary.type = "object"
                 /\ Len(db[d].summary.key_points) > 0)

C4_Witness ==
    \E d \in DOMAIN db :
        /\ storeReliable
        /\ run[d].summary = Str("Hello")
        /\ db[d].status = "completed"
        /\ db[d].summary.type = "object"
        /\ db[d].summary.key_points = <<"Hello">>

(* the summarizer call of the run of d threw *)
SummarizerFailed(d) == run[d].document.error = NlpError

TypeErrors == {InvalidTypeError, InvalidTypeError_routes}

(* the response is the rejection of an upload for its type or its size *)
RejectedTypeOrSize(r) ==
    r.op = "upload" /\ r.error \in TypeErrors \cup {FileTooLargeError}

(* the response is the answer to an upload that failed validation *)
ValidationFailure(r) ==
    r.op = "upload" /\ r.error \in TypeErrors \cup {FileTooLargeError, NoFileError}

(* the media types the upload contract names *)
ContractTypes == {PDF, DOC, DOCX, TXT}

(* C6: a step that handles an upload whose file has a media type outside   *)
(* the contract's set or a size above 20 MB rejects it, and a step that    *)
(* rejects an upload for its type or size leaves the records unchanged and *)
(* starts no processDocument run.                                          *)
C6_RejectedBeforePersist ==
    [][/\ (/\ response'.op = "upload"
           /\ response'.hasFile
           /\ (response'.mimetype \notin ContractTypes \/ response'.size > fileSize))
          => RejectedTypeOrSize(response')
       /\ RejectedTypeOrSize(response')
          => (db' = db /\ run' = run /\ nextId' = nextId)]_vars

(* an over-size upload was rejected while no record exists *)
C6_Witness ==
    /\ response.error = FileTooLargeError
    /\ response.size = fileSize + 1
    /\ \A d \in DOMAIN db : ~db[d].exists /\ run[d].pc = "none"

(* C7 as stated: every upload validation failure is answered with          *)
(* {success: false, error} and a 4xx status.                               *)
C7_Validation4xx ==
    ValidationFailure(response) =>
        /\ ~response.success
        /\ response.error # NoError
        /\ response.code \in 400..499

(* C8 as stated: an upload of at most 20 MB passes validation when its     *)
(* type is PDF, DOC, DOCX or plain text and is rejected for its type       *)
(* otherwise, at every upload endpoint.                                    *)
C8_SameAcceptedTypes ==
    (response.op = "upload" /\ response.hasFile /\ response.size <= fileSize) =>
        /\ response.mimetype \in ContractTypes => ~ValidationFailure(response)
        /\ response.mimetype \notin ContractTypes => response.error \in TypeErrors

(* ------------------------------ queries -------------------------------- *)
(* C9: for a record that exists and belongs to another user, the status    *)
(* and document handlers answer exactly what they answer when the record   *)
(* does not exist: the 404 'Document not found'.                           *)
C9_NoExistenceLeak ==
    /\ \A u \in Users, id \in DOMAIN db :
         (db[id].exists /\ db[id].user # u) =>
             /\ GetStatus(db, id, u) = GetStatus([db EXCEPT ![id] = NoDoc], id, u)
             /\ GetDocument(db, id, u) = GetDocument([db EXCEPT ![id] = NoDoc], id, u)
    /\ (/\ response.op \in {"status", "document"}
        /\ response.id \in DOMAIN db
        /\ db[response.id].exists
        /\ db[response.id].user # response.user)
         => response = NotFound(response.op, response.user, response.id)

(* user B asked for the status of a completed record of user A *)
C9_Witness ==
    /\ response.op = "status"
    /\ response.code = 404
    /\ response.id \in DOMAIN db
    /\ db[response.id].exists
    /\ db[response.id].status = "completed"
    /\ db[response.id].user # response.user

(* C10: the list handler returns only completed records of the requester,  *)
(* and at most 20 of them.                                                 *)
C10_ListOwnCompleted ==
    response.op = "list" =>
        /\ Len(response.summaries) <= PageSize
        /\ \A i \in 1..Len(response.summaries) :
             LET id == response.summaries[i].id
             IN  /\ id \in DOMAIN db
                 /\ db[id].exists
                 /\ db[id].user = response.user
                 /\ db[id].status = "completed"

(* a full page, from a store that holds more than a page of the            *)
(* requester's completed records, a record of somebody else and a record   *)
(* of the requester that is not completed                                  *)
C10_Witness ==
    /\ response.op = "list"
    /\ Len(response.summaries) = PageSize
    /\ Cardinality({d \in DOMAIN db : db[d].user = response.user
                                      /\ db[d].status = "completed"}) > PageSize
    /\ \E d \in DOMAIN db : db[d].user # response.user /\ db[d].status = "completed"
    /\ \E d \in DOMAIN db : db[d].user = response.user /\ db[d].status # "completed"

(* C11 as stated: the entries of the list are newest first: the createdAt  *)
(* of each entry is at least the createdAt of every entry after it.        *)
C11_NewestFirst ==
    response.op = "list" =>
        \A i \in 1..Len(response.summaries), j \in 1..Len(response.summaries) :
            i < j => response.summaries[i].createdAt >= response.summaries[j].createdAt

C13_ProcessedAtAtTerminal ==
    \A d \in DOMAIN db :
        db[d].exists =>
            /\ db[d].status \in Terminal => db[d].processedAt # NoDate
            /\ db[d].status \in {"uploaded", "processing"} => db[d].processedAt = NoDate

(* C14 as stated: no failure leaves processDocument: whatever fails, the   *)
(* summarizer call or a write of the record, the promise of                *)
(* processDocument never rejects, and no upload is answered with the       *)
(* failure of a run.                                                       *)
C14_NeverRejects ==
    /\ \A d \in DOMAIN db : run[d].pc # "rejected"
    /\ (response.op = "upload" /\ response.id \in DOMAIN db
           /\ run[response.id].handler = "responded")
         => response.code # 500

(* the write of 'processing' is what failed in the run of d: the catch     *)
(* block holds the error of a write, and the success path never ran        *)
ProcessingWriteFailed(d) ==
    run[d].document.error = SaveError /\ run[d].document.processedAt = NoDate

(* C15 as stated: when processing failed and the write in the catch block  *)
(* failed too, the persisted record has status processing and no error,    *)
(* and processDocument writes nothing more.                                *)
C15_StuckInProcessing ==
    /\ [](\A d \in DOMAIN db :
            (db[d].exists /\ run[d].pc = "rejected") =>
                db[d].status = "processing" /\ db[d].error = NoError)
    /\ [][\A d \in DOMAIN db :
            run[d].pc = "rejected" =>
                /\ run'[d].pc = "rejected"
                /\ db'[d].exists => db'[d] = db[d]]_vars

(* C15 amended: when processing failed and the write in the catch block    *)
(* failed too, the persisted record is left as the last successful write   *)
(* made it, with no error and no summary: with status uploaded when the    *)
(* write of 'processing' is what failed, with status processing            *)
(* otherwise; processDocument writes nothing more.                         *)
C15_StuckAsLastWritten ==
    /\ [](\A d \in DOMAIN db :
            (db[d].exists /\ run[d].pc = "rejected") =>
                /\ db[d].status = IF ProcessingWriteFailed(d)
                                  THEN "uploaded" ELSE "processing"
                /\ db[d].error = NoError
                /\ ~Present(db[d].summary))
    /\ [][\A d \in DOMAIN db :
            run[d].pc = "rejected" =>
                /\ run'[d].pc = "rejected"
                /\ db'[d].exists => db'[d] = db[d]]_vars

(* the write of 'processing' failed, then the write in the catch block:    *)
(* the record is left uploaded                                             *)
C15_Witness ==
    \E d \in DOMAIN db :
        /\ run[d].pc = "rejected"
        /\ ProcessingWriteFailed(d)
        /\ db[d].status = "uploaded"
        /\ db[d].error = NoError

C17_OneCallNoRetry ==
    /\ [](\A d \in DOMAIN db : run[d].calls <= 1)
    /\ [][\A d \in DOMAIN db :
            (db[d].exists /\ db[d].status = "failed") =>
                /\ run'[d].calls = run[d].calls
                /\ run'[d].pc = run[d].pc
                /\ db'[d].exists => db'[d].status = "failed"]_vars

(* a record that failed after its one summarizer call, seen as failed by   *)
(* a later document query                                                  *)
C17_Witness ==
    /\ response.op = "document"
    /\ response.status = "failed"
    /\ db[response.id].status = "failed"
    /\ run[response.id].calls = 1
    /\ run[response.id].pc = "returned"

(* ------------------------------- delete -------------------------------- *)
(* this step is the answer to a delete request of user u that removed      *)
(* record d                                                                *)
Deleted(d, u) ==
    /\ db[d].exists /\ ~db'[d].exists
    /\ response'.op = "delete" /\ response'.code = 200
    /\ response'.id = d /\ response'.user = u

(* C18: a step from a state in which a record is completed or failed       *)
(* leaves the record as it is, or is the delete of its owner that removes  *)
(* it.                                                                     *)
C18_TerminalImmutable ==
    [][\A d \in DOMAIN db :
          (db[d].exists /\ db[d].status \in Terminal) =>
              (db'[d] = db[d] \/ Deleted(d, db[d].user))]_vars

(* a delete request of another user was refused for a completed record,    *)
(* which is still as its run wrote it                                      *)
C18_Witness ==
    /\ response.op = "delete"
    /\ response.code = 404
    /\ response.id \in DOMAIN db
    /\ db[response.id].exists
    /\ db[response.id].user # response.user
    /\ db[response.id] = run[response.id].document
    /\ db[response.id].status = "completed"

(* C19 as stated: after a delete request that its owner's handler answered *)
(* with success, neither the record nor its stored file exists.            *)
C19_DeleteRemovesFile ==
    (response.op = "delete" /\ response.code = 200) =>
        /\ ~db[response.id].exists
        /\ response.id \notin disk

(* --------------------------- polling client ---------------------------- *)
(* the most requests one call of pollForSummary sends while polling *)
PollBound ==
    IF client.variant = "Home" THEN maxAttempts + 1 ELSE timeout \div interval_part002

(* the latest the last sleep of one call can end, in milliseconds *)
TimeBound ==
    IF client.variant = "Home"
    THEN maxAttempts * interval
    ELSE timeout + MaxQueryTime * 1000 + interval_part002

(* pollForSummary ends within its bound, times out only when it has seen   *)
(* no terminal status, and answers a failed status with another error      *)
PollEnds ==
    /\ client.polls <= PollBound
    /\ client.elapsed <= TimeBound
    /\ (client.variant = "Home" /\ client.polls = PollBound) =>
           client.pc \in {"thrown", "getDocument", "returned"}
    /\ client.error = TimeoutError =>
           (client.pc = "thrown" /\ client.terminal = "")
    /\ client.terminal = "failed" =>
           (client.pc = "thrown" /\ client.error \notin {NoError, TimeoutError})

C21_FastPathNoPolling ==
    LET r == client.uploadResponse
    IN  /\ (r.code = 201 /\ Present(r.summary)) =>
               /\ client.pc = "done"
               /\ client.summary = r.summary
               /\ client.processingStatus = Status(AnalysisComplete)
               /\ client.polls = 0 /\ client.fetches = 0
        /\ (client.isLoading /\ client.polls + client.fetches > 0) =>
               (r.code = 201 /\ ~Present(r.summary))
        /\ (client.pc \in {"poll", "sleep", "getDocument"} /\ client.isLoading) =>
               (r.code = 201 /\ ~Present(r.summary))

(* the synchronous server answered with the summary of a completed record  *)
(* and the page shows it without having polled                             *)
C21_Witness ==
    /\ deployment = "index"
    /\ client.pc = "done"
    /\ client.uploadResponse.status = "completed"
    /\ client.summary = Obj(<<"Hello">>, <<>>, <<>>)
    /\ client.polls = 0
    /\ client.fetches = 0

RECURSIVE TranslationOf(_, _, _)
TranslationOf(a, b, to) ==
    /\ a.t = b.t
    /\ CASE a.t = "string" -> b.v = translate(a.v, to)
         [] a.t = "array" ->
               /\ Len(a.v) = Len(b.v)
               /\ \A i \in 1..Len(a.v) : TranslationOf(a.v[i], b.v[i], to)
         [] a.t = "object" ->
               /\ Len(a.v) = Len(b.v)
               /\ \A i \in 1..Len(a.v) :
                     /\ a.v[i][1] = b.v[i][1]
                     /\ TranslationOf(a.v[i][2], b.v[i][2], to)
         [] OTHER -> a = b

(* C23: the translatedText of a successful translate response has exactly *)
(* the shape of the request's text at every depth (the same keys, arrays   *)
(* of the same length, arrays in arrays and non-string scalars in arrays   *)
(* included, a top-level array too), with every string translated.         *)
C23_SameShape ==
    (response.op = "translate" /\ response.code = 200)
        => TranslationOf(translation.text, response.translatedText,
                         translation.target)

(* the entries of a request's object whose value is an array of strings *)
StringArrays(text) ==
    IF text.t # "object" THEN {}
    ELSE {i \in 1..Len(text.v) :
             /\ text.v[i][2].t = "array"
             /\ \A j \in 1..Len(text.v[i][2].v) : text.v[i][2].v[j].t = "string"}

(* C24: an array of strings is translated element by element in its own   *)
(* order: whatever the order in which the calls of translate resolved,     *)
(* item j of the array in translatedText is the translation of item j of   *)
(* the array in the request, and the two arrays are equally long.          *)
C24_ElementWiseInOrder ==
    (response.op = "translate" /\ response.code = 200)
        => \A i \in StringArrays(translation.text) :
              LET input == translation.text.v[i][2].v
                  output == response.translatedText.v[i][2]
              IN  /\ output.t = "array"
                  /\ Len(output.v) = Len(input)
                  /\ \A j \in 1..Len(input) :
                        output.v[j] = Text(translate(input[j].v,
                                                     translation.target))

(* a successful response for an array of two different strings whose      *)
(* second call resolved before its first                                   *)
C24_Witness ==
    /\ response.op = "translate"
    /\ response.code = 200
    /\ translation.text = Map(<< <<"key_points", Arr(<<Text("a"), Text("b")>>)>> >>)
    /\ translation.order = << <<1, 2>>, <<1, 1>> >>
    /\ translation.target = "hi"

(* a translate request has ended with a call of translate that did not    *)
(* resolve: fewer calls resolved than the text has strings to translate    *)
LeafFailed ==
    /\ response.op = "translate"
    /\ translation.pc = "done"
    /\ ~Falsy(translation.text)
    /\ Len(translation.order)
          < Cardinality(Leaves(Started_translation(translation.text)))

(* C25: when a call of translate for one string fails, the whole request  *)
(* fails: the response is an error response (500) with success false and  *)
(* an error message, and it carries no translatedText, however many other  *)
(* strings had been translated.                                            *)
C25_LeafFailureFailsAll ==
    LeafFailed
        => /\ response.code = 500
           /\ response.success = FALSE
           /\ response.error # NoError
           /\ response.translatedText = Absent

(* of two strings, one was translated and the call for the other failed *)
C25_Witness ==
    /\ LeafFailed
    /\ translation.text = Map(<< <<"key_points", Arr(<<Text("a"), Text("b")>>)>> >>)
    /\ translation.order = << <<1, 2>> >>
    /\ response.error = TranslationFailedError

(* C26: a translate request, whether it succeeds or fails, leaves every   *)
(* document record unchanged: no step of the translate handler changes     *)
(* the store, whatever state the records are in while it runs.             *)
C26_TranslateLeavesRecords ==
    [][translation' # translation => db' = db]_vars

(* a translate request has been answered, with a translation or with an   *)
(* error, on a server whose record was being processed meanwhile           *)
C26_Witness ==
    /\ response.op = "translate"
    /\ response.code \in {200, 500}
    /\ translation.order # <<>>
    /\ db[1].exists
    /\ db[1].status = "completed"
    /\ Present(db[1].summary)

(* C27: whatever targetLanguage a translate request with a text carries,  *)
(* the handler selects a locale and the selection never fails the         *)
(* request: 'hindi' selects Hindi (hi), every other value, unrecognised    *)
(* or absent, selects English (en); a request that ends in 500 ended so    *)
(* because a call of translate did not resolve, and a string text that is  *)
(* answered is answered in the selected locale.                            *)
C27_LocaleAlwaysSelected ==
    (translation.pc # "idle" /\ ~Falsy(translation.text))
        => /\ translation.targetLanguage = "hindi" => translation.target = "hi"
           /\ translation.targetLanguage # "hindi" => translation.target = "en"
           /\ (response.op = "translate" /\ response.code # 200) => LeafFailed
           /\ (response.op = "translate" /\ response.code = 200
                  /\ translation.text.t = "string")
                 => response.translatedText
                       = Text(translate(translation.text.v,
                                        IF translation.targetLanguage = "hindi"
                                        THEN "hi" ELSE "en"))

(* a request without targetLanguage has been answered in English *)
C27_Witness ==
    /\ response.op = "translate"
    /\ response.code = 200
    /\ translation.targetLanguage = NoLanguage
    /\ translation.text = Text("a")
    /\ response.translatedText = Text("a@en")

(* ------------------------------- queries ------------------------------- *)
(* how far a status is along the lifecycle *)
Rank(status) ==
    CASE status = "uploaded" -> 0
      [] status = "processing" -> 1
      [] OTHER -> 2

(* C28: a status or document query is answered from the record as         *)
(* persisted when the query runs, never from an older copy: its status     *)
(* (and the document query's summary) is the one in the store, so a query  *)
(* after the terminal write returns the terminal status; and since the     *)
(* persisted status of a record only moves forward, successive queries     *)
(* never see it move backwards.                                            *)
C28_QueriesReadTheStore ==
    /\ [](/\ (response.op \in {"status", "document"} /\ response.code = 200)
                => /\ db[response.id].exists
                   /\ response.status = db[response.id].status
          /\ (response.op = "document" /\ response.code = 200)
                => response.summary = db[response.id].summary)
    /\ [][\A d \in DOMAIN db :
             StatusChanges(d) => Rank(db'[d].status) > Rank(db[d].status)]_vars

(* a status query sent after the terminal write has been answered with the *)
(* terminal status                                                         *)
C28_Witness ==
    /\ response.op = "status"
    /\ response.code = 200
    /\ response.status = "completed"
    /\ db[response.id].status = "completed"
    /\ run[response.id].pc = "returned"

(* ---------------------------- single writer ---------------------------- *)
(* status, summary or error of record d is changed by this step *)
Written(d) ==
    /\ db[d].exists
    /\ db'[d].exists
    /\ <<db'[d].status, db'[d].summary, db'[d].error>>
          # <<db[d].status, db[d].summary, db[d].error>>

(* C29: once a record exists, its status, summary and error are changed   *)
(* only by a write of the processDocument run for its own id, and that     *)
(* step changes no other record; the steps of the status, document, list   *)
(* and translate handlers leave every record unchanged.                    *)
C29_SingleWriter ==
    [][/\ \A d \in DOMAIN db :
             Written(d)
                => /\ run[d].pc \in {"saveProcessing", "saveCompleted", "saveFailed"}
                   /\ run'[d] # run[d]
                   /\ response' = NoResp
                   /\ translation' = translation
                   /\ \A e \in DOMAIN db \ {d} :
                         db'[e] = db[e] /\ run'[e] = run[e]
       /\ (\/ response'.op \in {"status", "document", "list", "translate"}
           \/ translation' # translation)
             => db' = db]_vars

(* the two runs have written different outcomes, each to its own record,  *)
(* and a query has just been answered                                      *)
C29_Witness ==
    /\ db[1].status = "completed"
    /\ db[2].status = "failed"
    /\ db[1].user # db[2].user
    /\ response.op \in {"status", "document", "list", "translate"}
    /\ translation.pc = "done"

(* --------------------------- missing record ---------------------------- *)
(* the run for id d found no record *)
FoundNothing(d) == run[d].pc = "returned" /\ ~run[d].document.exists

(* C30: processDocument called with an id that has no record returns      *)
(* normally at the lookup: the step calls no summarizer and writes or      *)
(* creates no record, and afterwards the run has made no summarizer call   *)
(* and the id still has no record.                                         *)
C30_MissingRecordNoOp ==
    /\ [][\A d \in DOMAIN db :
             (run[d].pc = "findById" /\ ~db[d].exists /\ run'[d] # run[d])
                => /\ run'[d].pc = "returned"
                   /\ run'[d].calls = run[d].calls
                   /\ db' = db
                   /\ disk' = disk]_vars
    /\ [](\A d \in DOMAIN db :
             FoundNothing(d) => run[d].calls = 0 /\ ~db[d].exists)

(* a record was removed before the run started for it looked it up, and   *)
(* the run has returned                                                    *)
C30_Witness ==
    \E d \in DOMAIN db :
        /\ FoundNothing(d)
        /\ run[d].triggers = 1
        /\ run[d].calls = 0
        /\ ~db[d].exists

(* --------------------------- polling bound ----------------------------- *)
(* C31: pollForSummary of pages/Home.jsx sends at most maxAttempts (30)   *)
(* status requests for one document before it throws 'Processing timeout   *)
(* exceeded', so its last request is sent before 30 intervals of 10 s (5   *)
(* minutes) have passed.                                                   *)
C31_AtMostMaxAttempts ==
    client.variant = "Home"
        => /\ client.polls <= maxAttempts
           /\ (client.pc = "poll" => client.elapsed < maxAttempts * interval)

(* --------------------------- persisted error --------------------------- *)
(* the message of the error that sent the run for d to its catch block:   *)
(* the one callPythonService throws when the summarizer was called and     *)
(* gave no result (nothing of the completion was assigned), otherwise the  *)
(* one of the write that threw                                             *)
FailingMessage(d) ==
    IF run[d].calls = 1 /\ run[d].document.processedAt = NoDate
    THEN NlpError
    ELSE SaveError

(* C32: whenever a run has ended its record in failed, the persisted      *)
(* error is the message of the error raised by the step that failed (for   *)
(* a summarizer failure the message callPythonService throws), and a       *)
(* status query for the record returns that same message.                  *)
C32_ErrorIsFailureMessage ==
    /\ \A d \in DOMAIN db :
          (db[d].exists /\ db[d].status = "failed")
             => db[d].error = FailingMessage(d)
    /\ (response.op = "status" /\ response.code = 200
           /\ response.status = "failed")
          => response.error = FailingMessage(response.id)

(* a status query has returned the summarizer's failure for one record    *)
(* while the other record failed on a write                                *)
C32_Witness ==
    /\ response.op = "status"
    /\ response.status = "failed"
    /\ response.error = NlpError
    /\ \E d \in DOMAIN db : db[d].status = "failed" /\ db[d].error = SaveError

(* ------------------------------- delete -------------------------------- *)
(* the delete request answered in this step names a record of its sender *)
DeletesOwn ==
    /\ response'.id \in DOMAIN db
    /\ db[response'.id].exists
    /\ db[response'.id].user = response'.user

(* the store without record id *)
Without(id) == [d \in DOMAIN db |-> IF d = id THEN NoDoc ELSE db[d]]

(* C33 as stated: a delete request for an id that has no record, or whose *)
(* record belongs to another user, is answered 404 'Document not found'    *)
(* and removes nothing; a delete by the owner removes that one record and  *)
(* no other.                                                               *)
C33_NotOwned404 ==
    [][response'.op = "delete"
          => IF DeletesOwn
             THEN db' \in {db, Without(response'.id)}
             ELSE /\ response'.code = 404
                  /\ response'.error = NotFoundError
                  /\ db' = db]_vars

(* C33 amended: a delete request for an id that has no record, or whose   *)
(* record belongs to another user, removes nothing and is answered 404     *)
(* 'Document not found', or 500 'Failed to delete document' when the       *)
(* lookup throws; a delete by the owner is answered 200 and removes that   *)
(* one record and no other, or is answered 500 and removes nothing.        *)
C33_OwnerScopedDelete ==
    [][response'.op = "delete"
          => IF DeletesOwn
             THEN \/ response'.code = 200 /\ db' = Without(response'.id)
                  \/ /\ response'.code = 500
                     /\ response'.error = DeleteError
                     /\ db' = db
             ELSE /\ \/ response'.code = 404 /\ response'.error = NotFoundError
                     \/ response'.code = 500 /\ response'.error = DeleteError
                  /\ db' = db]_vars

(* user B's delete of A's record was answered 404 and both records are    *)
(* still there                                                             *)
C33_Witness ==
    /\ response.op = "delete"
    /\ response.code = 404
    /\ response.user = "B"
    /\ response.id = 1
    /\ db[1].exists /\ db[1].user = "A"
    /\ db[2].exists

C35_NoPathInResponses ==
    \A i \in 1..Len(response.documents) :
        "path" \notin DOMAIN response.documents[i]

(* ------------------------ file upload component ------------------------ *)
(* the calls of handleFileUpload that have started and not ended *)
InFlight ==
    (IF client.pc \notin {"idle", "done"} THEN 1 ELSE 0)
    + (IF client.other = "uploadDocument" THEN 1 ELSE 0)

(* C36: the page never has two calls of handleFileUpload in flight: while  *)
(* isLoading is true, no selection, drop or submit on the file upload      *)
(* component starts another.                                               *)
C36_OneUploadInFlight == InFlight <= 1

(* the page shows a result: a summary and the status 'Analysis complete' *)
ShowsSummary(c) ==
    /\ Present(c.summary)
    /\ c.processingStatus = Status(AnalysisComplete)

(* the page shows a failure: a status 'Error: ...', no summary, no id *)
ShowsError(c) ==
    /\ c.processingStatus.error
    /\ ~Present(c.summary)
    /\ c.documentId = 0

(* the server gave the summary: in its answer to the upload, or in the     *)
(* document it sent after a status query had answered completed            *)
ServerGave(c) ==
    \/ /\ c.uploadResponse.code = 201
       /\ c.uploadResponse.success
       /\ c.summary = c.uploadResponse.summary
    \/ /\ c.terminal = "completed"
       /\ c.fetches > 0
       /\ c.summary = c.result

(* C37: every call of handleFileUpload ends with isLoading false and       *)
(* either a summary and the status 'Analysis complete', or a status        *)
(* 'Error: ...' with no summary and documentId null, never both and never  *)
(* neither; the summary it shows is one the server sent, in the answer to  *)
(* the upload or after a status query answered completed.                  *)
C37_UploadEndsInOneOutcome ==
    [][ /\ (client.pc # "done" /\ client'.pc = "done") =>
               /\ ~client'.isLoading
               /\ ShowsSummary(client') # ShowsError(client')
        /\ (client.other = "uploadDocument" /\ client'.other = "done") =>
               /\ ~client'.isLoading
               /\ ShowsError(client')
        /\ (Present(client'.summary) /\ client'.summary # client.summary) =>
               ServerGave(client')
      ]_vars

(* a call that polled and was told completed has ended with the summary   *)
(* of the record                                                           *)
C37_Witness ==
    /\ client.pc = "done"
    /\ client.other = "none"
    /\ ~client.isLoading
    /\ client.polls > 0
    /\ client.terminal = "completed"
    /\ ShowsSummary(client)
    /\ client.summary = db[client.id].summary

(* ------------------------------- signup -------------------------------- *)
(* the email as signup stores it: lower-cased and trimmed *)
Normalized(email) == trim(toLowerCase(email))

(* some stored user has the normalized form of this email *)
Registered(a, email) ==
    \E i \in 1..Len(a.users) : a.users[i].email = Normalized(email)

(* signup request r, whose body passed the checks, gets its answer *)
SignupAnswered(r) ==
    /\ auth.requests[r].pc \in {"findOne", "save"}
    /\ auth'.requests[r].pc = "done"

(* C38: whatever the order and interleaving of signup requests, no two     *)
(* stored users have the same normalized email, and a signup whose         *)
(* normalized email is registered when it is answered gets 400 'Email      *)
(* already registered'.                                                    *)
C38_OneUserPerEmail ==
    [][ /\ \A i, j \in 1..Len(auth'.users) :
              i # j => auth'.users[i].email # auth'.users[j].email
        /\ \A r \in SignupRequests :
              (SignupAnswered(r) /\ Registered(auth, auth.requests[r].email)) =>
                  /\ response'.code = 400
                  /\ response'.error = EmailRegisteredError
      ]_vars

(* --------------------------- authentication ---------------------------- *)
(* the token is one jwt.verify takes and its user is stored *)
ValidToken(token) ==
    /\ token.present
    /\ token.verifies
    /\ \E i \in 1..Len(auth.users) : auth.users[i].id = token.userId

(* the step is a request with this token to one of the five routes *)
RequestWith(token, ok) ==
    \/ PostUpload(token, ok)
    \/ GetDocumentById(token, ok)
    \/ GetSummaries(token, ok)
    \/ GetDocumentStatus(token, ok)
    \/ PostTranslate(token, ok)

(* C39: on the authenticated server a request to upload, document, status, *)
(* list or translate whose token is missing, is not one jwt.verify takes,  *)
(* or names no stored user is answered 401 with nothing but the error, and *)
(* its handler does not run: no record is created or changed, no file is   *)
(* stored, no run is started, and no call of the summarizer or of the      *)
(* translator is made.                                                     *)
C39_NoValidTokenNoHandler ==
    [][ \A token \in Tokens, ok \in SaveOutcomes :
            (~ValidToken(token) /\ RequestWith(token, ok)) =>
                /\ response'.code = 401
                /\ response' \in {Unauthorized(response'.op, NoTokenError),
                                  Unauthorized(response'.op, InvalidTokenError)}
                /\ UNCHANGED <<db, run, nextId, disk, translation>>
      ]_vars

(* a status or document request whose token did not pass has been         *)
(* answered 401 while a record of user A is stored and its run has not     *)
(* begun                                                                   *)
C39_Witness ==
    /\ response.code = 401
    /\ response.error = InvalidTokenError
    /\ response.op \in {"status", "document"}
    /\ db[MaxDocs].exists
    /\ db[MaxDocs].user = "A"
    /\ run[MaxDocs].pc = "findById"

====
